---------------------------- MODULE Spec2Model ----------------------------
(***************************************************************************)
(* The Maze Learns: the maze generator with its retry loop and fallback,   *)
(* the BFS solver, the Mulberry32 generator that drives the carving, and   *)
(* the profile-to-parameters mapping of the adaptive difficulty loop.      *)
(*                                                                         *)
(* Numbers.  TLC's integers are 32-bit signed, so a 32-bit word of the     *)
(* program is a pair <<hi, lo>> of 16-bit limbs (value hi * 65536 + lo).   *)
(* A JavaScript number that is not known to be an integer is a binary64    *)
(* value [neg, m, e] (see the arithmetic section): generation parameters,  *)
(* profile averages, radii, positions and times are such values.           *)
(***************************************************************************)
EXTENDS Integers, Sequences, FiniteSets, TLC

VARIABLES
    mode,       \* which entry point this behaviour exercises: "gen", "solve", "map"
    config,     \* MazeConfig
    params,     \* GenerationParams
    pc,         \* position inside generateMaze / the entry point
    call,       \* 1 or 2: which of two successive generateMaze calls is running
    attempt,    \* loop counter of generateMaze
    seed,       \* the local `seed` of generateMaze
    rng,        \* state of the RNG instance of the current attempt (a word)
    cells,      \* the grid of the current attempt
    exit,       \* ExitSector of the current attempt
    entry,      \* slices whose ring-0 inner wall openEntryHoles opened
    built,      \* number of grids createEmptyGrid built during the current call
    solution,   \* last SolveResult
    maze,       \* the MazeData returned by the current call (or NoMaze)
    first,      \* outcome of the first call, kept for comparison
    profile,    \* PlayerProfile handed to mapProfileToParams
    nextParams, \* GenerationParams returned by mapProfileToParams
    lastMetrics, \* the AttemptMetrics snapshot of the attempt that just ended
    instances,  \* RNG instances by name, each the word of its closure
    drawn,      \* the values each RNG instance returned so far, oldest first
    timeState,  \* TimeState of the fixed-timestep loop
    alpha,      \* the fraction the last updateTime returned
    ticked,     \* physics ticks run by the last updateTime
    ball,       \* Ball
    walls,      \* wall segments handed to the collision tests
    contact,    \* CollisionResult of each segment tested by the last resolution
                \* (in the game only its hit flag)
    game,       \* the remaining fields of GameState
    tracker,    \* MetricsTracker of the running attempt
    input,      \* the input manager: the keys held and the reset edge
    carving     \* the locals startS, visited and stack of carveSpanningTree

\* the state of the maze, solver and mapping modules
mazeVars == <<config, params, call, attempt, seed, rng, cells, exit, entry,
              built, solution, maze, first, nextParams, carving>>

\* the state of the engine modules and of the game loop
engineVars == <<lastMetrics, instances, drawn, timeState, alpha, ticked, ball,
                walls, contact, game, tracker, input>>

vars == <<mode, pc, profile, mazeVars, engineVars>>

\* values of the engine state while a behaviour exercises another module
NoMetrics == [totalTime |-> -1]
NoTime    == [accumulator |-> -1]
NoBall    == [radius |-> -1]
NoGame    == [status |-> "none"]
NoTracker == [tickCount |-> -1]
NoInput   == [keys |-> {"none"}]

\* carveSpanningTree is not running
NoCarving == [startS |-> -1, visited |-> {}, stack |-> <<>>]

EngineIdle ==
    /\ lastMetrics = NoMetrics
    /\ instances = <<>>
    /\ drawn = <<>>
    /\ timeState = NoTime
    /\ alpha = -1
    /\ ticked = -1
    /\ ball = NoBall
    /\ walls = <<>>
    /\ contact = <<>>
    /\ game = NoGame
    /\ tracker = NoTracker
    /\ input = NoInput

---------------------------------------------------------------------------
(* 32-bit words as limb pairs *)

Pow2(n) == IF n = 0 THEN 1 ELSE IF n = 1 THEN 2 ELSE IF n = 2 THEN 4
           ELSE IF n = 7 THEN 128 ELSE IF n = 8 THEN 256 ELSE IF n = 9 THEN 512
           ELSE IF n = 14 THEN 16384 ELSE IF n = 15 THEN 32768 ELSE 65536

RECURSIVE Xor16(_, _, _)
Xor16(a, b, n) ==
    IF n = 0 THEN 0
    ELSE (((a % 2) + (b % 2)) % 2) + 2 * Xor16(a \div 2, b \div 2, n - 1)

RECURSIVE Or16(_, _, _)
Or16(a, b, n) ==
    IF n = 0 THEN 0
    ELSE (IF (a % 2) = 1 \/ (b % 2) = 1 THEN 1 ELSE 0) + 2 * Or16(a \div 2, b \div 2, n - 1)

\* seed | 0 for a non-negative seed below 2^31
ToWord(n) == <<n \div 65536, n % 65536>>

Xor32(a, b) == <<Xor16(a[1], b[1], 16), Xor16(a[2], b[2], 16)>>

\* w | k for a constant 0 <= k < 65536
OrSmall(a, k) == <<a[1], Or16(a[2], k, 16)>>

\* (a + b) | 0
Add32(a, b) ==
    LET lo == a[2] + b[2]
    IN  <<(a[1] + b[1] + (lo \div 65536)) % 65536, lo % 65536>>

\* a >>> n for 0 < n < 16
Shr32(a, n) ==
    <<a[1] \div Pow2(n), ((a[1] % Pow2(n)) * Pow2(16 - n)) + (a[2] \div Pow2(n))>>

\* low 16 bits of the product of two 16-bit limbs
MulLo16(x, y) ==
    (((x % 256) * (y % 256))
      + ((((((x \div 256) * (y % 256)) + ((x % 256) * (y \div 256))) % 256) * 256))) % 65536

\* bits 16 and up of the product of two 16-bit limbs (below 2^16)
MulHi16(x, y) ==
    LET p == (x % 256) * (y % 256)
        m == ((x \div 256) * (y % 256)) + ((x % 256) * (y \div 256))
        h == (x \div 256) * (y \div 256)
    IN  ((p + ((m % 256) * 256)) \div 65536) + (m \div 256) + h

\* Math.imul(a, b): the low 32 bits of the product
Imul(a, b) ==
    <<(MulHi16(a[2], b[2]) + MulLo16(a[1], b[2]) + MulLo16(a[2], b[1])) % 65536,
      MulLo16(a[2], b[2])>>

---------------------------------------------------------------------------
(* engine/rng.ts: Mulberry32.  A draw is a record [state, u] or [state, n]. *)

\* the value of rng before the first createRNG
NoRng == <<0, 0>>

\* a generator kept across attempts and calls: only the first createRNG seeds it
createRNGShared(s) == IF rng = NoRng THEN ToWord(s) ELSE rng

\* createRNG: let state = seed | 0
createRNG(s) == ToWord(s)

\* let t = Math.imul(state ^ (state >>> 15), 1 | state)
Scramble1(st) == Imul(Xor32(st, Shr32(st, 15)), OrSmall(st, 1))

\* t = (t + Math.imul(t ^ (t >>> 7), 61 | t)) ^ t
Scramble2(t) == Xor32(Add32(t, Imul(Xor32(t, Shr32(t, 7)), OrSmall(t, 61))), t)

\* (t ^ (t >>> 14)) >>> 0, the numerator u of the result u / 4294967296
Scramble3(t) == Xor32(t, Shr32(t, 14))

NextFrom(st) == [state |-> st, u |-> Scramble3(Scramble2(Scramble1(st)))]

\* next(): state = (state + 0x6d2b79f5) | 0, then the scrambled output
next(state) == NextFrom(Add32(state, <<27947, 31221>>))

\* Math.floor(u / 2^32 * n) for 0 < n < 2^15
ScaleDown(u, n) == ((u[1] * n) + ((u[2] * n) \div 65536)) \div 65536

\* Math.ceil in the place of Math.floor: one more unless u * (max - min) is a
\* multiple of 2^32
IntFromCeil(d, min, max) ==
    [state |-> d.state,
     n |-> ScaleDown(d.u, max - min) + min
           + (IF ((d.u[2] * (max - min)) % 65536) = 0
                 /\ (((d.u[1] * (max - min))
                       + ((d.u[2] * (max - min)) \div 65536)) % 65536) = 0
              THEN 0 ELSE 1)]

IntFrom(d, min, max) == [state |-> d.state, n |-> ScaleDown(d.u, max - min) + min]

\* nextInt(min, max) = Math.floor(next() * (max - min)) + min
nextInt(state, min, max) == IntFrom(next(state), min, max)

\* u / 2^32 < num / den
FracLess(u, num, den) == (u[1] * den) + ((u[2] * den) \div 65536) < num * 65536

Min(a, b) == IF a < b THEN a ELSE b
Max(a, b) == IF a > b THEN a ELSE b

---------------------------------------------------------------------------
(* Natural numbers of any size, for the arithmetic of JavaScript numbers.   *)
(* A natural is the sequence of its base-32768 digits, least significant    *)
(* first, without leading zero digits; <<>> is 0.                           *)

RECURSIVE TwoTo(_)
TwoTo(k) == IF k = 0 THEN 1 ELSE 2 * TwoTo(k - 1)

Base == TwoTo(15)

Limb(a, i) == IF i <= Len(a) THEN a[i] ELSE 0

RECURSIVE BTrim(_)
BTrim(a) ==
    IF a = <<>> THEN a
    ELSE IF a[Len(a)] = 0 THEN BTrim(SubSeq(a, 1, Len(a) - 1)) ELSE a

\* a small natural (below 2^31) as digits
RECURSIVE BNat(_)
BNat(n) == IF n = 0 THEN <<>> ELSE <<n % Base>> \o BNat(n \div Base)

RECURSIVE BAddFrom(_, _, _, _, _)
BAddFrom(a, b, i, n, c) ==
    IF i > n THEN (IF c = 0 THEN <<>> ELSE <<c>>)
    ELSE <<(Limb(a, i) + Limb(b, i) + c) % Base>>
         \o BAddFrom(a, b, i + 1, n, (Limb(a, i) + Limb(b, i) + c) \div Base)

BAdd(a, b) == BAddFrom(a, b, 1, Max(Len(a), Len(b)), 0)

\* a - b for a >= b
RECURSIVE BSubFrom(_, _, _, _, _)
BSubFrom(a, b, i, n, borrow) ==
    IF i > n THEN <<>>
    ELSE <<(Limb(a, i) - Limb(b, i) - borrow + Base) % Base>>
         \o BSubFrom(a, b, i + 1, n,
                     IF Limb(a, i) - Limb(b, i) - borrow < 0 THEN 1 ELSE 0)

BSub(a, b) == BTrim(BSubFrom(a, b, 1, Len(a), 0))

\* -1, 0 or 1 as a < b, a = b, a > b
RECURSIVE BCmpFrom(_, _, _)
BCmpFrom(a, b, i) ==
    IF i = 0 THEN 0
    ELSE IF a[i] < b[i] THEN -1
    ELSE IF a[i] > b[i] THEN 1
    ELSE BCmpFrom(a, b, i - 1)

BCmp(a, b) ==
    IF Len(a) < Len(b) THEN -1
    ELSE IF Len(a) > Len(b) THEN 1
    ELSE BCmpFrom(a, b, Len(a))

\* a times one digit d
RECURSIVE BMulLimbFrom(_, _, _, _)
BMulLimbFrom(a, d, i, c) ==
    IF i > Len(a) THEN (IF c = 0 THEN <<>> ELSE <<c>>)
    ELSE <<(a[i] * d + c) % Base>> \o BMulLimbFrom(a, d, i + 1, (a[i] * d + c) \div Base)

BMulLimb(a, d) == IF d = 0 THEN <<>> ELSE BMulLimbFrom(a, d, 1, 0)

Zeros(k) == [i \in 1 .. k |-> 0]

RECURSIVE BMulFrom(_, _, _)
BMulFrom(a, b, j) ==
    IF j > Len(b) THEN <<>>
    ELSE BAdd(IF b[j] = 0 THEN <<>> ELSE Zeros(j - 1) \o BMulLimb(a, b[j]),
              BMulFrom(a, b, j + 1))

BMul(a, b) == IF a = <<>> \/ b = <<>> THEN <<>> ELSE BMulFrom(a, b, 1)

\* a * 2^k
BShl(a, k) ==
    IF a = <<>> THEN a
    ELSE Zeros(k \div 15) \o BMulLimb(a, TwoTo(k % 15))

\* floor(a / 2^r) for r < 15, digit by digit
BShrBits(a, r) ==
    BTrim([i \in 1 .. Len(a) |->
             (a[i] \div TwoTo(r)) + (Limb(a, i + 1) % TwoTo(r)) * TwoTo(15 - r)])

\* floor(a / 2^k)
BShr(a, k) ==
    IF k \div 15 >= Len(a) THEN <<>>
    ELSE BShrBits(SubSeq(a, (k \div 15) + 1, Len(a)), k % 15)

RECURSIVE SmallBitLen(_)
SmallBitLen(n) == IF n = 0 THEN 0 ELSE 1 + SmallBitLen(n \div 2)

\* number of binary digits of a
BBitLen(a) ==
    IF a = <<>> THEN 0 ELSE 15 * (Len(a) - 1) + SmallBitLen(a[Len(a)])

\* binary digit i of a, digit 0 the least significant
BBit(a, i) == (Limb(a, (i \div 15) + 1) \div TwoTo(i % 15)) % 2

\* some binary digit of a below digit k is set
BLowSet(a, k) == BShl(BShr(a, k), k) # a

---------------------------------------------------------------------------
\* Long division in base 2^15.  The divisor b is scaled so that its leading
\* digit is at least 2^14; then the quotient of the two leading digits of the
\* running remainder R < b * 2^15 by the leading digit of b is the next digit
\* of the quotient or exceeds it by at most 2.
RECURSIVE QFix(_, _, _)
QFix(R, b, q) == IF BCmp(BMulLimb(b, q), R) > 0 THEN QFix(R, b, q - 1) ELSE q

QEst(R, b) ==
    Min(Base - 1, (Limb(R, Len(b) + 1) * Base + Limb(R, Len(b))) \div b[Len(b)])

\* st is the quotient (one digit per digit of a taken so far, leading zeros
\* kept) and the remainder of the leading digits of a
RECURSIVE BLongDiv(_, _, _)
BLongDigit(a, b, st, R, d) ==
    BLongDiv(a, b, [q |-> <<d>> \o st.q, r |-> BSub(R, BMulLimb(b, d))])

BLongStep(a, b, st, R) == BLongDigit(a, b, st, R, QFix(R, b, QEst(R, b)))

BLongDiv(a, b, st) ==
    IF Len(st.q) >= Len(a) THEN st
    ELSE BLongStep(a, b, st, BTrim(<<a[Len(a) - Len(st.q)]>> \o st.r))

Unscaled(st, s) == [q |-> BTrim(st.q), r |-> BShr(st.r, s)]

BDivScaled(a, b, s) ==
    Unscaled(BLongDiv(BShl(a, s), BShl(b, s), [q |-> <<>>, r |-> <<>>]), s)

\* floor(a / b) as q and a mod b as r, for b > 0
BDivMod(a, b) == BDivScaled(a, b, 15 - SmallBitLen(b[Len(b)]))

\* floor(sqrt(n)) by Newton's iteration from a power of two not below it:
\* x decreases until (x + floor(n / x)) / 2 >= x
RECURSIVE BSqrtFrom(_, _, _)
BSqrtFrom(n, x, y) ==
    IF BCmp(y, x) >= 0 THEN [s |-> x, r |-> BSub(n, BMul(x, x))]
    ELSE BSqrtFrom(n, y, BShr(BAdd(y, BDivMod(n, y).q), 1))

BSqrtStart(n, x) == BSqrtFrom(n, x, BShr(BAdd(x, BDivMod(n, x).q), 1))

\* floor(sqrt(n)) as s and n - s * s as r
BSqrt(n) ==
    IF n = <<>> THEN [s |-> <<>>, r |-> <<>>]
    ELSE BSqrtStart(n, BShl(<<1>>, (BBitLen(n) + 1) \div 2))

---------------------------------------------------------------------------
(* JavaScript numbers: IEEE-754 binary64 with round-to-nearest, ties to     *)
(* even.  A finite number is [neg, m, e] with value (-1)^neg * m * 2^e and  *)
(* m of exactly 53 binary digits, or zero (m = <<>>, e = 0).  Subnormals,   *)
(* infinities, NaN and the sign of zero are outside the sampled values.     *)

FZero == [neg |-> FALSE, m |-> <<>>, e |-> 0]

\* q of 53 digits, or 2^53 after a carry out of the rounding
Pack(neg, q, e) ==
    IF BBitLen(q) > 53 THEN [neg |-> neg, m |-> BShr(q, 1), e |-> e + 1]
    ELSE [neg |-> neg, m |-> q, e |-> e]

\* drop the sh low digits of M, rounding to nearest, ties to even; sticky says
\* that the exact value lies above M * 2^e
RoundShift(neg, M, e, sticky, sh) ==
    Pack(neg,
         IF BBit(M, sh - 1) = 1 /\ (sticky \/ BLowSet(M, sh - 1) \/ BBit(M, sh) = 1)
         THEN BAdd(BShr(M, sh), <<1>>)
         ELSE BShr(M, sh),
         e + sh)

Round(neg, M, e, sticky) ==
    IF M = <<>> THEN FZero
    ELSE IF BBitLen(M) <= 53
    THEN [neg |-> neg, m |-> BShl(M, 53 - BBitLen(M)), e |-> e - (53 - BBitLen(M))]
    ELSE RoundShift(neg, M, e, sticky, BBitLen(M) - 53)

IsZero(x) == x.m = <<>>

\* an integer literal below 2^31 in magnitude
FromInt(n) == Round(n < 0, BNat(IF n < 0 THEN -n ELSE n), 0, FALSE)

FNeg(x) == IF IsZero(x) THEN x ELSE [x EXCEPT !.neg = ~x.neg]

\* -1, 0, 1 as |x| < |y|, |x| = |y|, |x| > |y|
CmpMag(x, y) ==
    IF IsZero(x) THEN (IF IsZero(y) THEN 0 ELSE -1)
    ELSE IF IsZero(y) THEN 1
    ELSE IF x.e < y.e THEN -1
    ELSE IF x.e > y.e THEN 1
    ELSE BCmp(x.m, y.m)

FCmp(x, y) ==
    IF IsZero(x) /\ IsZero(y) THEN 0
    ELSE IF IsZero(x) THEN (IF y.neg THEN 1 ELSE -1)
    ELSE IF IsZero(y) THEN (IF x.neg THEN -1 ELSE 1)
    ELSE IF x.neg /\ ~y.neg THEN -1
    ELSE IF ~x.neg /\ y.neg THEN 1
    ELSE IF x.neg THEN CmpMag(y, x)
    ELSE CmpMag(x, y)

FLess(x, y)    == FCmp(x, y) < 0
FLeq(x, y)     == FCmp(x, y) <= 0
FGreater(x, y) == FCmp(x, y) > 0
FGeq(x, y)     == FCmp(x, y) >= 0

\* |big| + |small| and |big| - |small| for |big| >= |small|, both non-zero; a
\* small operand more than 60 binary places below big cannot change the result
AddMag(neg, big, small) ==
    IF big.e - small.e > 60 THEN [big EXCEPT !.neg = neg]
    ELSE Round(neg, BAdd(BShl(big.m, big.e - small.e), small.m), small.e, FALSE)

SubMag(neg, big, small) ==
    IF big.e - small.e > 60 THEN [big EXCEPT !.neg = neg]
    ELSE Round(neg, BSub(BShl(big.m, big.e - small.e), small.m), small.e, FALSE)

FAdd(x, y) ==
    IF IsZero(x) THEN y
    ELSE IF IsZero(y) THEN x
    ELSE IF x.neg = y.neg
    THEN (IF CmpMag(x, y) >= 0 THEN AddMag(x.neg, x, y) ELSE AddMag(x.neg, y, x))
    ELSE IF CmpMag(x, y) = 0 THEN FZero
    ELSE IF CmpMag(x, y) > 0 THEN SubMag(x.neg, x, y)
    ELSE SubMag(y.neg, y, x)

FSub(x, y) == FAdd(x, FNeg(y))

FMul(x, y) ==
    IF IsZero(x) \/ IsZero(y) THEN FZero
    ELSE Round(x.neg # y.neg, BMul(x.m, y.m), x.e + y.e, FALSE)

DivRound(neg, d, e) == Round(neg, d.q, e, d.r # <<>>)

\* x / y for y # 0
FDiv(x, y) ==
    IF IsZero(x) THEN FZero
    ELSE IF y.neg THEN DivRound(~x.neg, BDivMod(BShl(x.m, 56), y.m), x.e - y.e - 56)
    ELSE DivRound(x.neg, BDivMod(BShl(x.m, 56), y.m), x.e - y.e - 56)

SqrtRound(d, e) == Round(FALSE, d.s, e, d.r # <<>>)

SqrtShifted(x, k) == SqrtRound(BSqrt(BShl(x.m, k)), (x.e - k) \div 2)

\* Math.sqrt(x) for x >= 0
FSqrt(x) ==
    IF IsZero(x) THEN FZero
    ELSE SqrtShifted(x, IF (x.e - 56) % 2 = 0 THEN 56 ELSE 57)

\* floor(a / d) as q and a mod d as r for a single digit d > 0, from the most
\* significant digit of a down; st.q holds one digit per digit of a taken
RECURSIVE BDivSmallFrom(_, _, _)
BDivSmallDigit(a, d, st, cur) ==
    BDivSmallFrom(a, d, [q |-> <<cur \div d>> \o st.q, r |-> cur % d])

BDivSmallFrom(a, d, st) ==
    IF Len(st.q) >= Len(a) THEN [q |-> BTrim(st.q), r |-> st.r]
    ELSE BDivSmallDigit(a, d, st, st.r * Base + a[Len(a) - Len(st.q)])

BDivSmall(a, d) == BDivSmallFrom(a, d, [q |-> <<>>, r |-> 0])

RatioRound(neg, d, e) == Round(neg, d.q, e, d.r # 0)

\* the number nearest to num / den for 0 < den < 2^15: the value of a decimal
\* literal, for instance 0.985 as FromRatio(985, 1000)
FromRatio(num, den) ==
    IF num = 0 THEN FZero
    ELSE RatioRound(num < 0,
                    BDivSmall(BShl(BNat(IF num < 0 THEN -num ELSE num), 75), den),
                    -75)

FMin(x, y) == IF FLess(y, x) THEN y ELSE x
FMax(x, y) == IF FGreater(y, x) THEN y ELSE x


\* the value of a big natural below 2^31
RECURSIVE BVal(_)
BVal(a) == IF a = <<>> THEN 0 ELSE a[1] + Base * BVal(Tail(a))

\* Math.PI = 3.141592653589793
PI == [neg |-> FALSE, m |-> <<11544, 10376, 2029, 201>>, e |-> -51]

FAbs(x) == [x EXCEPT !.neg = FALSE]

\* x * 2^k
Ldexp(x, k) == IF IsZero(x) THEN x ELSE [x EXCEPT !.e = @ + k]

\* Math.floor(x) as a whole number, for |x| < 2^31
FloorMag(q, neg, frac) == IF neg THEN -(BVal(q) + (IF frac THEN 1 ELSE 0)) ELSE BVal(q)
FFloor(x) ==
    IF IsZero(x) THEN 0
    ELSE IF x.e >= 0 THEN (IF x.neg THEN -1 ELSE 1) * BVal(BShl(x.m, x.e))
    ELSE FloorMag(BShr(x.m, -x.e), x.neg, BLowSet(x.m, -x.e))

---------------------------------------------------------------------------
(* engine/rng.ts: the calls that return a JavaScript number or an array *)

\* the value u / 4294967296 that next() returns
Unit(u) == Round(FALSE, BAdd(BMul(BNat(u[1]), BNat(65536)), BNat(u[2])), -32, FALSE)

FloatFrom(d, min, max) ==
    [state |-> d.state, u |-> d.u, v |-> FAdd(FMul(Unit(d.u), FSub(max, min)), min)]

\* nextFloat(min, max) = next() * (max - min) + min
nextFloat(state, min, max) == FloatFrom(next(state), min, max)

\* arr[j] of a JavaScript array kept as a sequence (index 0 is the first element)
At(arr, j) == IF j < Len(arr) THEN arr[j + 1] ELSE "undefined"

\* [arr[i], arr[j]] = [arr[j], arr[i]] for i < arr.length
Swapped(arr, i, j) ==
    IF j < Len(arr)
    THEN [arr EXCEPT ![i + 1] = arr[j + 1], ![j + 1] = arr[i + 1]]
    ELSE Append([arr EXCEPT ![i + 1] = At(arr, j)], arr[i + 1])

\* the body of the loop of shuffle: const j = nextInt(0, i + 1) and the swap;
\* draws lists the next() values with the index drawn and the array afterwards
ShuffleSwap(st, i, d, j) ==
    [state |-> d.state, arr |-> Swapped(st.arr, i, j),
     draws |-> Append(st.draws, [u |-> d.u, max |-> i + 1, n |-> j,
                                 arr |-> Swapped(st.arr, i, j)])]

ShuffleStep(st, i, d) == ShuffleSwap(st, i, d, IntFrom(d, 0, i + 1).n)

\* for (let i = arr.length - 1; i > 0; i--)
RECURSIVE ShuffleFrom(_, _)
ShuffleFrom(st, i) ==
    IF i <= 0 THEN st
    ELSE ShuffleFrom(ShuffleStep(st, i, next(st.state)), i - 1)

\* shuffle(arr): the state and the array afterwards
shuffle(state, arr) ==
    ShuffleFrom([state |-> state, arr |-> arr, draws |-> <<>>], Len(arr) - 1)

---------------------------------------------------------------------------
(* maze/types.ts and the generator.  Loops are recursive operators; a value  *)
(* the code binds to a local is passed on as a parameter.                    *)

\* sliceAngle(slices) = (2 * Math.PI) / slices
sliceAngle(slices) == FDiv(FMul(FromInt(2), PI), FromInt(slices))

\* ringWidth = (config.outerRadius - config.innerRadius) / config.rings
ringWidth(cfg) == FDiv(FSub(cfg.outerRadius, cfg.innerRadius), FromInt(cfg.rings))

\* ringInnerRadius(config, ring) = config.innerRadius + ring * ringWidth
ringInnerRadius(cfg, ring) == FAdd(cfg.innerRadius, FMul(FromInt(ring), ringWidth(cfg)))

\* ringOuterRadius(config, ring) = config.innerRadius + (ring + 1) * ringWidth
ringOuterRadius(cfg, ring) == FAdd(cfg.innerRadius, FMul(FromInt(ring + 1), ringWidth(cfg)))

Ring(c)  == 0 .. c.rings - 1
Slice(c) == 0 .. c.slices - 1

createEmptyGrid(c) ==
    [r \in Ring(c) |-> [s \in Slice(c) |->
        [wallInner |-> TRUE, wallOuter |-> TRUE, wallCW |-> TRUE, wallCCW |-> TRUE]]]

getNeighbors(ring, slice, c) ==
    (IF ring > 0 THEN <<[ring |-> ring - 1, slice |-> slice, direction |-> "inner"]>>
     ELSE <<>>)
    \o (IF ring < c.rings - 1
        THEN <<[ring |-> ring + 1, slice |-> slice, direction |-> "outer"]>>
        ELSE <<>>)
    \o <<[ring |-> ring, slice |-> (slice + 1) % c.slices, direction |-> "cw"],
         [ring |-> ring, slice |-> (slice - 1 + c.slices) % c.slices, direction |-> "ccw"]>>

removeWallOneSided(g, r1, s1, r2, s2, direction) ==
    CASE direction = "inner" -> [g EXCEPT ![r1][s1].wallInner = FALSE]
      [] direction = "outer" -> [g EXCEPT ![r1][s1].wallOuter = FALSE]
      [] direction = "cw"    -> [g EXCEPT ![r1][s1].wallCW = FALSE]
      [] direction = "ccw"   -> [g EXCEPT ![r1][s1].wallCCW = FALSE]

removeWall(g, r1, s1, r2, s2, direction) ==
    CASE direction = "inner" ->
            [g EXCEPT ![r1][s1].wallInner = FALSE, ![r2][s2].wallOuter = FALSE]
      [] direction = "outer" ->
            [g EXCEPT ![r1][s1].wallOuter = FALSE, ![r2][s2].wallInner = FALSE]
      [] direction = "cw" ->
            [g EXCEPT ![r1][s1].wallCW = FALSE, ![r2][s2].wallCCW = FALSE]
      [] direction = "ccw" ->
            [g EXCEPT ![r1][s1].wallCCW = FALSE, ![r2][s2].wallCW = FALSE]

\* const ARC_BIAS = 4
ARC_BIAS == 4

RECURSIVE Repeat(_, _)
Repeat(x, n) == IF n = 0 THEN <<>> ELSE <<x>> \o Repeat(x, n - 1)

\* a weighted list that does not skip the visited neighbours
RECURSIVE WeightedAll(_, _, _)
WeightedAll(nbrs, i, visited) ==
    IF i > Len(nbrs) THEN <<>>
    ELSE Repeat(nbrs[i], IF nbrs[i].direction \in {"cw", "ccw"} THEN ARC_BIAS ELSE 1)
         \o WeightedAll(nbrs, i + 1, visited)

\* the weighted list of the unvisited neighbours, arc neighbours ARC_BIAS times each
RECURSIVE Weighted(_, _, _)
Weighted(nbrs, i, visited) ==
    IF i > Len(nbrs) THEN <<>>
    ELSE (IF <<nbrs[i].ring, nbrs[i].slice>> \in visited THEN <<>>
          ELSE Repeat(nbrs[i], IF nbrs[i].direction \in {"cw", "ccw"} THEN ARC_BIAS ELSE 1))
         \o Weighted(nbrs, i + 1, visited)

\* the while loop of carveSpanningTree: CarveLoop is the loop head, CarveFrom
\* the body once the weighted list is built, CarveChosen the body once the
\* index is drawn
RECURSIVE CarveLoop(_, _, _, _, _)
RECURSIVE CarveFrom(_, _, _, _, _, _)
RECURSIVE CarveChosen(_, _, _, _, _, _)
CarveChosen(g, visited, stack, state, c, chosen) ==
    CarveLoop(removeWall(g, stack[Len(stack)][1], stack[Len(stack)][2],
                         chosen.ring, chosen.slice, chosen.direction),
              visited \cup {<<chosen.ring, chosen.slice>>},
              Append(stack, <<chosen.ring, chosen.slice>>), state, c)

CarveFrom(g, visited, stack, d, c, weighted) ==
    CarveChosen(g, visited, stack, d.state, c, weighted[d.n + 1])

CarveLoop(g, visited, stack, st, c) ==
    IF stack = <<>> THEN [cells |-> g, state |-> st]
    ELSE IF Weighted(getNeighbors(stack[Len(stack)][1], stack[Len(stack)][2], c),
                     1, visited) = <<>>
         THEN CarveLoop(g, visited, SubSeq(stack, 1, Len(stack) - 1), st, c)
         ELSE CarveFrom(g, visited, stack,
                nextInt(st, 0,
                  Len(Weighted(getNeighbors(stack[Len(stack)][1], stack[Len(stack)][2], c),
                               1, visited))),
                c,
                Weighted(getNeighbors(stack[Len(stack)][1], stack[Len(stack)][2], c),
                         1, visited))

CarveStart(g, c, d) == CarveLoop(g, {<<0, d.n>>}, << <<0, d.n>> >>, d.state, c)

carveSpanningTree(g, c, st) == CarveStart(g, c, nextInt(st, 0, c.slices))

RECURSIVE HolesLoop(_, _, _, _, _, _)
HolesLoop(g, i, numHoles, offset, spacing, c) ==
    IF i >= numHoles THEN g
    ELSE HolesLoop([g EXCEPT ![0][(offset + i * spacing) % c.slices].wallInner = FALSE],
                   i + 1, numHoles, offset, spacing, c)

HolesFrom(g, c, numHoles, spacing, d) ==
    [cells |-> HolesLoop(g, 0, numHoles, d.n, spacing, c), state |-> d.state,
     holes |-> {(d.n + i * spacing) % c.slices : i \in 0 .. numHoles - 1}]

\* a hole count with a lower limit of one
numHolesAtLeastOne(c) == Min(3, Max(1, c.slices \div 4))

\* numHoles = Math.min(3, Math.max(2, Math.floor(slices / 4)))
numHolesOf(c) == Min(3, Max(2, c.slices \div 4))

openEntryHoles(g, c, st) ==
    HolesFrom(g, c, numHolesOf(c), c.slices \div numHolesOf(c), nextInt(st, 0, c.slices))

\* an outer opening that does not stop at the last ring
OpeningOuterAnyRing(g, r, s, st, c) ==
    [cells |-> IF ~g[r][s].wallOuter THEN g
               ELSE IF r < c.rings - 1 THEN removeWall(g, r, s, r + 1, s, "outer")
               ELSE [g EXCEPT ![r][s].wallOuter = FALSE],
     state |-> st]

\* else if (r < config.rings - 1 && cell.wallOuter) removeWall(..., 'outer')
OpeningOuter(g, r, s, st, c) ==
    [cells |-> IF r < c.rings - 1 /\ g[r][s].wallOuter
               THEN removeWall(g, r, s, r + 1, s, "outer") ELSE g,
     state |-> st]

\* the second draw of `r > 0 && cell.wallInner && rng.next() < 0.5`
OpeningInner(g, r, s, d2, c) ==
    IF FracLess(d2.u, 1, 2)
    THEN [cells |-> removeWall(g, r, s, r - 1, s, "inner"), state |-> d2.state]
    ELSE OpeningOuter(g, r, s, d2.state, c)

\* if (rng.next() < 0.7) { inner or outer } else { clockwise }
OpeningKind(g, r, s, d1, c) ==
    IF FracLess(d1.u, 7, 10)
    THEN IF r > 0 /\ g[r][s].wallInner
         THEN OpeningInner(g, r, s, next(d1.state), c)
         ELSE OpeningOuter(g, r, s, d1.state, c)
    ELSE [cells |-> IF g[r][s].wallCW
                    THEN removeWall(g, r, s, r, (s + 1) % c.slices, "cw") ELSE g,
          state |-> d1.state]

OpeningAtCell(g, r, ds, c) == OpeningKind(g, r, ds.n, next(ds.state), c)

OpeningAtRing(g, dr, c) == OpeningAtCell(g, dr.n, nextInt(dr.state, 0, c.slices), c)

\* one iteration of the loop of addExtraOpenings
OpeningStep(g, st, c) == OpeningAtRing(g, nextInt(st, 0, c.rings), c)

RECURSIVE OpeningsLoop(_, _, _, _)
RECURSIVE OpeningsNext(_, _, _)
OpeningsNext(o, n, c) == OpeningsLoop(o.cells, o.state, n, c)

OpeningsLoop(g, st, n, c) ==
    IF n = 0 THEN [cells |-> g, state |-> st]
    ELSE OpeningsNext(OpeningStep(g, st, c), n - 1, c)

\* an opening count taken from wallDensity
openingsFromWallDensity(c, p) ==
    FFloor(FMul(FMul(FromInt(c.rings * c.slices), p.wallDensity), FromRatio(1, 2)))

\* Math.floor(totalCells * params.branchiness * 0.5)
openingsToAdd(c, p) ==
    FFloor(FMul(FMul(FromInt(c.rings * c.slices), p.branchiness), FromRatio(1, 2)))

addExtraOpenings(g, c, p, st) == OpeningsLoop(g, st, openingsToAdd(c, p), c)

\* cells[r][s].wallCW = false; cells[r][ns].wallCCW = false
ClearCW(g, r, s, c) ==
    [g EXCEPT ![r][s].wallCW = FALSE, ![r][(s + 1) % c.slices].wallCCW = FALSE]

\* the loops of capRadialWalls at cell k = r * slices + s, in row-major order
RECURSIVE CapLoop(_, _, _, _, _)
RECURSIVE CapCell(_, _, _, _, _, _, _)
RECURSIVE CapDraw(_, _, _, _, _, _, _)
CapDraw(g, d, k, r, s, c, p) ==
    CapLoop(IF FGreater(Unit(d.u), p.radialDensity) THEN ClearCW(g, r, s, c) ELSE g,
            d.state, k + 1, c, p)

CapCell(g, st, k, r, s, c, p) ==
    IF ~g[r][s].wallCW THEN CapLoop(g, st, k + 1, c, p)
    ELSE IF r % 2 = 1 THEN CapLoop(ClearCW(g, r, s, c), st, k + 1, c, p)
    ELSE CapDraw(g, next(st), k, r, s, c, p)

CapLoop(g, st, k, c, p) ==
    IF k >= c.rings * c.slices THEN [cells |-> g, state |-> st]
    ELSE CapCell(g, st, k, k \div c.slices, k % c.slices, c, p)

capRadialWalls(g, c, p, st) == CapLoop(g, st, 0, c, p)

RECURSIVE ExitLoop(_, _, _, _, _)
ExitLoop(g, i, sliceStart, sliceCount, c) ==
    IF i >= sliceCount THEN g
    ELSE ExitLoop([g EXCEPT ![c.rings - 1][(sliceStart + i) % c.slices].wallOuter = FALSE],
                  i + 1, sliceStart, sliceCount, c)

\* an exit whose outer walls are cleared on ring 0 instead of the last ring
ExitAtRingZero(g, c, sliceStart, sliceCount, st) ==
    [cells |-> ExitLoop(g, 0, sliceStart, sliceCount, [c EXCEPT !.rings = 1]),
     state |-> st,
     exit  |-> [sliceStart |-> sliceStart, sliceCount |-> sliceCount]]

\* an exit that reports sliceCount but clears the first slice only
ExitAtFirstOnly(g, c, sliceStart, sliceCount, st) ==
    [cells |-> ExitLoop(g, 0, sliceStart, Min(sliceCount, 1), c), state |-> st,
     exit  |-> [sliceStart |-> sliceStart, sliceCount |-> sliceCount]]

ExitAt(g, c, sliceStart, sliceCount, st) ==
    [cells |-> ExitLoop(g, 0, sliceStart, sliceCount, c), state |-> st,
     exit  |-> [sliceStart |-> sliceStart, sliceCount |-> sliceCount]]

ExitRandom(g, c, p, d) == ExitAt(g, c, d.n, Min(p.exitWidth, c.slices), d.state)

\* sliceStart = exitOffset >= 0 ? exitOffset % slices : rng.nextInt(0, slices)
placeExit(g, c, p, st) ==
    IF p.exitOffset >= 0
    THEN ExitAt(g, c, p.exitOffset % c.slices, Min(p.exitWidth, c.slices), st)
    ELSE ExitRandom(g, c, p, nextInt(st, 0, c.slices))

RECURSIVE EnsureLoop(_, _, _, _)
EnsureLoop(g, r, targetSlice, c) ==
    IF r >= c.rings - 1 THEN g
    ELSE EnsureLoop(
           IF g[r][targetSlice].wallOuter /\ g[r + 1][targetSlice].wallInner
           THEN [g EXCEPT ![r][targetSlice].wallOuter = FALSE,
                          ![r + 1][targetSlice].wallInner = FALSE]
           ELSE g,
           r + 1, targetSlice, c)

\* a forced path whose loop starts one ring too far out
ensurePathFromRingOne(g, c, e) == EnsureLoop(g, 1, e.sliceStart, c)

ensurePathToExit(g, c, e) == EnsureLoop(g, 0, e.sliceStart, c)

\* const GEOMETRIC_MARGIN = 4
GEOMETRIC_MARGIN == 4

\* minCellHeight = 2 * config.ballRadius + GEOMETRIC_MARGIN
minCellHeight(c) == FAdd(FMul(FromInt(2), c.ballRadius), FromInt(GEOMETRIC_MARGIN))

\* if (rw < minCellHeight) return false;
\* arcLen = ringInnerRadius(config, 0) * sliceAngle(config.slices);
\* if (arcLen < minCellHeight) return false; return true
checkGeometricConstraints(c) ==
    /\ ~FLess(ringWidth(c), minCellHeight(c))
    /\ ~FLess(FMul(ringInnerRadius(c, 0), sliceAngle(c.slices)), minCellHeight(c))

\* generateFallbackMaze: the ring corridors and one radial connection per ring
\* for (s): cells[r][s].wallCW = false; cells[r][ns].wallCCW = false.  As s and
\* ns = (s + 1) % slices each run through every slice, the loop clears both
\* walls of every cell of ring r.
FallbackRing(g, r, c) ==
    [g EXCEPT ![r] = [s \in Slice(c) |->
                        [@[s] EXCEPT !.wallCW = FALSE, !.wallCCW = FALSE]]]

\* if (r < rings - 1) open cells[r][r % slices].wallOuter and its pair
FallbackConnect(g, r, c) ==
    IF r < c.rings - 1
    THEN [g EXCEPT ![r][r % c.slices].wallOuter = FALSE,
                   ![r + 1][r % c.slices].wallInner = FALSE]
    ELSE g

RECURSIVE FallbackLoop(_, _, _)
FallbackLoop(g, r, c) ==
    IF r >= c.rings THEN g
    ELSE FallbackLoop(FallbackConnect(FallbackRing(g, r, c), r, c), r + 1, c)

\* the two exit assignments.  cells[rings - 1][1] is undefined when slices = 1
\* and the assignment to its wallOuter raises a TypeError: threw is TRUE and
\* nothing is returned.
FallbackExit(g1, c) ==
    IF 1 \in Slice(c)
    THEN [threw |-> FALSE,
          cells |-> [g1 EXCEPT ![c.rings - 1][1].wallOuter = FALSE],
          exit  |-> [sliceStart |-> 0, sliceCount |-> 2],
          finalSeed |-> c.seed]
    ELSE [threw |-> TRUE, cells |-> g1,
          exit  |-> [sliceStart |-> 0, sliceCount |-> 2],
          finalSeed |-> c.seed]

generateFallbackMaze(c, p) ==
    FallbackExit([FallbackLoop(createEmptyGrid(c), 0, c)
                    EXCEPT ![c.rings - 1][0].wallOuter = FALSE], c)

---------------------------------------------------------------------------
(* maze/solver.ts *)

key(r, s, c) == r * c.slices + s

exitCells(c, e) ==
    {key(c.rings - 1, (e.sliceStart + i) % c.slices, c) : i \in 0 .. e.sliceCount - 1}

\* if (cond && !visited.has(nk)) { visited.set(nk, ck); queue.push([nr, ns]) }
Discover(qv, cond, nr, ns, ck, c) ==
    IF cond /\ key(nr, ns, c) \notin DOMAIN qv.visited
    THEN [queue |-> Append(qv.queue, <<nr, ns>>),
          visited |-> qv.visited @@ (key(nr, ns, c) :> ck)]
    ELSE qv

\* the neighbour blocks without the inner one
ExploreNoInner(qv, cell, cr, cs, c) ==
    Discover(
      Discover(
        Discover(qv, cr < c.rings - 1 /\ ~cell.wallOuter, cr + 1, cs, key(cr, cs, c), c),
        ~cell.wallCW, cr, (cs + 1) % c.slices, key(cr, cs, c), c),
      ~cell.wallCCW, cr, (cs - 1 + c.slices) % c.slices, key(cr, cs, c), c)

\* the four neighbour blocks, in the code's order: inner, outer, CW, CCW
Explore(qv, cell, cr, cs, c) ==
    Discover(
      Discover(
        Discover(
          Discover(qv, cr > 0 /\ ~cell.wallInner, cr - 1, cs, key(cr, cs, c), c),
          cr < c.rings - 1 /\ ~cell.wallOuter, cr + 1, cs, key(cr, cs, c), c),
        ~cell.wallCW, cr, (cs + 1) % c.slices, key(cr, cs, c), c),
      ~cell.wallCCW, cr, (cs - 1 + c.slices) % c.slices, key(cr, cs, c), c)

\* a reconstruction that stops at the start cell without recording it
RECURSIVE ReconstructNoStart(_, _, _)
ReconstructNoStart(current, visited, c) ==
    IF current = -1 \/ visited[current] = -1 THEN <<>>
    ELSE ReconstructNoStart(visited[current], visited, c)
         \o << <<current \div c.slices, current % c.slices>> >>

\* the path reconstruction: unshift while current !== -1
RECURSIVE Reconstruct(_, _, _)
Reconstruct(current, visited, c) ==
    IF current = -1 THEN <<>>
    ELSE Reconstruct(IF current \in DOMAIN visited THEN visited[current] ELSE -1,
                     visited, c)
         \o << <<current \div c.slices, current % c.slices>> >>

RECURSIVE BFSLoop(_, _, _, _, _, _)
RECURSIVE BFSVisit(_, _, _, _, _, _, _, _)
RECURSIVE BFSNext(_, _, _, _, _)
BFSNext(qv, head, g, c, targets) == BFSLoop(qv.queue, head, qv.visited, g, c, targets)

BFSVisit(queue, head, visited, g, c, targets, cr, cs) ==
    IF key(cr, cs, c) \in targets /\ ~g[cr][cs].wallOuter
    THEN [solvable |-> TRUE, path |-> Reconstruct(key(cr, cs, c), visited, c)]
    ELSE BFSNext(Explore([queue |-> queue, visited |-> visited], g[cr][cs], cr, cs, c),
                 head + 1, g, c, targets)

BFSLoop(queue, head, visited, g, c, targets) ==
    IF head > Len(queue) THEN [solvable |-> FALSE, path |-> <<>>]
    ELSE BFSVisit(queue, head, visited, g, c, targets, queue[head][1], queue[head][2])

solveMaze(g, c, e) ==
    BFSLoop([i \in 1 .. c.slices |-> <<0, i - 1>>], 1,
            [k \in {key(0, s, c) : s \in Slice(c)} |-> -1],
            g, c, exitCells(c, e))

---------------------------------------------------------------------------
(* The mapping module (second half of maze/solver.ts), in JavaScript numbers *)

\* const CLAMPS
CLAMPS ==
    [wallDensity    |-> [min |-> FromRatio(1, 10),  max |-> FromRatio(7, 10)],
     branchiness    |-> [min |-> FromRatio(5, 100), max |-> FromRatio(6, 10)],
     corridorWidth  |-> [min |-> FromInt(1),        max |-> FromInt(2)],
     radialDensity  |-> [min |-> FromRatio(1, 10),  max |-> FromRatio(35, 100)],
     decoyRate      |-> [min |-> FZero,             max |-> FromRatio(5, 10)],
     pathLengthBias |-> [min |-> FromRatio(2, 10),  max |-> FromRatio(8, 10)],
     exitWidth      |-> [min |-> 1,                 max |-> 2]]

\* const MAX_DELTA = 0.1
MAX_DELTA == FromRatio(1, 10)

\* a clamp that forgets the upper limit
clampNoMax(value, min, max) == FMax(min, value)

\* Math.max(min, Math.min(max, value))
clamp(value, min, max) == FMax(min, FMin(max, value))

Abs(x)  == IF x < 0 THEN -x ELSE x
Sign(x) == IF x > 0 THEN 1 ELSE IF x < 0 THEN -1 ELSE 0

\* Math.abs(delta) <= maxDelta ? target : prev + Math.sign(delta) * maxDelta
Limited(prev, target, maxDelta, delta) ==
    IF FLeq(FAbs(delta), maxDelta) THEN target
    ELSE FAdd(prev, IF delta.neg THEN FNeg(maxDelta) ELSE maxDelta)

\* const delta = target - prev
rateLimited(prev, target, maxDelta) == Limited(prev, target, maxDelta, FSub(target, prev))

\* the targets of lines 155-169
targetWallDensity(pf)   == FAdd(FromRatio(2, 10), FDiv(pf.avgSpeed, FromInt(500)))
targetPathLength(pf)    == FAdd(FromRatio(3, 10), FDiv(pf.avgSpeed, FromInt(600)))
targetBranchiness(pf)   ==
    FAdd(FromRatio(15, 100),
         FMul(FSub(FromInt(1), FDiv(pf.avgDirChanges, FromInt(50))), FromRatio(3, 10)))
targetDecoyRate(pf)     ==
    FAdd(FromRatio(1, 10),
         FMul(FSub(FromInt(1), FDiv(pf.avgCollisions, FromInt(20))), FromRatio(2, 10)))
targetCorridorWidth(pf) == FSub(FromRatio(15, 10), FMul(pf.avgExploration, FromRatio(5, 10)))
targetRadialDensity(pf) == FAdd(FromRatio(2, 10), FMul(pf.avgRiskRatio, FromRatio(15, 100)))
targetExitWidth(pf)     == IF FGreater(pf.avgTime, FromInt(60)) THEN 2 ELSE 1

\* the rate-limited and clamped record of lines 172-205
adaptedParams(pf, currentParams) ==
    [wallDensity |->
       clamp(rateLimited(currentParams.wallDensity, targetWallDensity(pf), MAX_DELTA),
             CLAMPS.wallDensity.min, CLAMPS.wallDensity.max),
     branchiness |->
       clamp(rateLimited(currentParams.branchiness, targetBranchiness(pf), MAX_DELTA),
             CLAMPS.branchiness.min, CLAMPS.branchiness.max),
     corridorWidth |->
       clamp(rateLimited(currentParams.corridorWidth, targetCorridorWidth(pf),
                         MAX_DELTA),
             CLAMPS.corridorWidth.min, CLAMPS.corridorWidth.max),
     radialDensity |->
       clamp(rateLimited(currentParams.radialDensity, targetRadialDensity(pf),
                         MAX_DELTA),
             CLAMPS.radialDensity.min, CLAMPS.radialDensity.max),
     decoyRate |->
       clamp(rateLimited(currentParams.decoyRate, targetDecoyRate(pf), MAX_DELTA),
             CLAMPS.decoyRate.min, CLAMPS.decoyRate.max),
     pathLengthBias |->
       clamp(rateLimited(currentParams.pathLengthBias, targetPathLength(pf),
                         MAX_DELTA),
             CLAMPS.pathLengthBias.min, CLAMPS.pathLengthBias.max),
     exitOffset |-> -1,
     exitWidth |-> targetExitWidth(pf)]

\* a mapper that adapts even before any attempt was recorded
mapProfileToParamsAlways(pf, currentParams) == adaptedParams(pf, currentParams)

mapProfileToParams(pf, currentParams) ==
    IF pf.attempts < 1 THEN currentParams
    ELSE adaptedParams(pf, currentParams)

---------------------------------------------------------------------------
(* Bounds and sampled inputs *)

MaxRings  == 3
MaxSlices == 4
MaxSeed   == 1

\* const MAX_REGEN_ATTEMPTS = 20
MAX_REGEN_ATTEMPTS == 20

\* <<innerRadius, outerRadius, ballRadius>>: the test suite's geometry (feasible
\* up to 11 slices), a ring band too thin for any ring count, and a void so
\* small that the innermost arc is too short from 3 slices on
Geometries == {<<30, 200, 6>>, <<30, 40, 6>>, <<6, 200, 6>>}

Configs ==
    {[rings |-> r, slices |-> s, seed |-> sd,
      innerRadius |-> FromInt(g[1]), outerRadius |-> FromInt(g[2]),
      ballRadius |-> FromInt(g[3])] :
        r \in 1 .. MaxRings, s \in 1 .. MaxSlices, sd \in 0 .. MaxSeed,
        g \in Geometries}

\* defaultGenerationParams()
defaultGenerationParams ==
    [wallDensity |-> FromRatio(3, 10), branchiness |-> FromRatio(3, 10),
     corridorWidth |-> FromInt(1), radialDensity |-> FromRatio(2, 10),
     decoyRate |-> FromRatio(2, 10), pathLengthBias |-> FromRatio(5, 10),
     exitOffset |-> -1, exitWidth |-> 2]

\* branchiness 0.3 and 0.6, radialDensity 0.2 and 0.35, a random and a fixed
\* exit offset, exit widths 1 and 2; and the defaults with exit width 0, for
\* which no attempt has an exit and every attempt is unsolvable
GenParams ==
    {[defaultGenerationParams EXCEPT !.branchiness = b, !.radialDensity = rd,
                                     !.exitOffset = eo, !.exitWidth = ew] :
        b \in {FromRatio(3, 10), FromRatio(6, 10)},
        rd \in {FromRatio(2, 10), FromRatio(35, 100)}, eo \in {-1, 1}, ew \in 1 .. 2}
    \cup {[defaultGenerationParams EXCEPT !.exitWidth = 0]}

NoCells == <<>>
NoExit  == [sliceStart |-> 0, sliceCount |-> 0]
NoSolution == [solvable |-> FALSE, path |-> <<>>]
NoMaze  == [returned |-> FALSE]
NoProfile == [attempts |-> -1]
NoParams  == [exitWidth |-> -1]

---------------------------------------------------------------------------
(* generateMaze as a state machine: one action per step of the attempt loop *)

GenInit ==
    /\ EngineIdle
    /\ carving = NoCarving
    /\ mode = "gen"
    /\ config \in Configs
    /\ params \in GenParams
    /\ pc = "attempt"
    /\ call = 1
    /\ attempt = 0
    /\ seed = config.seed
    /\ rng = NoRng
    /\ cells = NoCells
    /\ exit = NoExit
    /\ entry = {}
    /\ built = 0
    /\ solution = NoSolution
    /\ maze = NoMaze
    /\ first = NoMaze
    /\ profile = NoProfile
    /\ nextParams = NoParams

\* loop head with an infeasible config: const rng = createRNG(seed); seed++; continue
AttemptInfeasible ==
    /\ mode = "gen" /\ pc = "attempt" /\ attempt < MAX_REGEN_ATTEMPTS
    /\ ~checkGeometricConstraints(config)
    /\ rng' = createRNG(seed)
    /\ seed' = seed + 1
    /\ attempt' = attempt + 1
    /\ UNCHANGED <<engineVars, carving, mode, config, params, pc, call, cells, exit, entry, built, solution,
                   maze, first, profile, nextParams>>

\* loop head with a feasible config: createRNG(seed), createEmptyGrid(config)
AttemptStart ==
    /\ mode = "gen" /\ pc = "attempt" /\ attempt < MAX_REGEN_ATTEMPTS
    /\ checkGeometricConstraints(config)
    /\ rng' = createRNG(seed)
    /\ cells' = createEmptyGrid(config)
    /\ built' = built + 1
    /\ exit' = NoExit
    /\ entry' = {}
    /\ pc' = "carve"
    /\ UNCHANGED <<engineVars, carving, mode, config, params, call, attempt, seed, solution, maze, first,
                   profile, nextParams>>

CarveSpanningTree ==
    /\ mode = "gen" /\ pc = "carve"
    /\ LET o == carveSpanningTree(cells, config, rng)
       IN  cells' = o.cells /\ rng' = o.state
    /\ pc' = "holes"
    /\ UNCHANGED <<engineVars, carving, mode, config, params, call, attempt, seed, exit, entry, built,
                   solution, maze, first, profile, nextParams>>

OpenEntryHoles ==
    /\ mode = "gen" /\ pc = "holes"
    /\ LET o == openEntryHoles(cells, config, rng)
       IN  cells' = o.cells /\ rng' = o.state /\ entry' = o.holes
    /\ pc' = "openings"
    /\ UNCHANGED <<engineVars, carving, mode, config, params, call, attempt, seed, exit, built, solution,
                   maze, first, profile, nextParams>>

AddExtraOpenings ==
    /\ mode = "gen" /\ pc = "openings"
    /\ LET o == addExtraOpenings(cells, config, params, rng)
       IN  cells' = o.cells /\ rng' = o.state
    /\ pc' = "cap"
    /\ UNCHANGED <<engineVars, carving, mode, config, params, call, attempt, seed, exit, entry, built,
                   solution, maze, first, profile, nextParams>>

CapRadialWalls ==
    /\ mode = "gen" /\ pc = "cap"
    /\ LET o == capRadialWalls(cells, config, params, rng)
       IN  cells' = o.cells /\ rng' = o.state
    /\ pc' = "exit"
    /\ UNCHANGED <<engineVars, carving, mode, config, params, call, attempt, seed, exit, entry, built,
                   solution, maze, first, profile, nextParams>>

PlaceExit ==
    /\ mode = "gen" /\ pc = "exit"
    /\ LET o == placeExit(cells, config, params, rng)
       IN  cells' = o.cells /\ rng' = o.state /\ exit' = o.exit
    /\ pc' = "ensure"
    /\ UNCHANGED <<engineVars, carving, mode, config, params, call, attempt, seed, entry, built, solution,
                   maze, first, profile, nextParams>>

EnsurePathToExit ==
    /\ mode = "gen" /\ pc = "ensure"
    /\ cells' = ensurePathToExit(cells, config, exit)
    /\ pc' = "validate"
    /\ UNCHANGED <<engineVars, carving, mode, config, params, call, attempt, seed, rng, exit, entry, built,
                   solution, maze, first, profile, nextParams>>

\* solveMaze accepted the grid: return { cells, exit, config, params, finalSeed: seed }
ValidateSolvable ==
    /\ mode = "gen" /\ pc = "validate"
    /\ LET sol == solveMaze(cells, config, exit)
       IN  /\ sol.solvable
           /\ solution' = sol
    /\ maze' = [returned |-> TRUE, fallback |-> FALSE, cells |-> cells, exit |-> exit,
                config |-> config, params |-> params, finalSeed |-> seed]
    /\ pc' = "returned"
    /\ UNCHANGED <<engineVars, carving, mode, config, params, call, attempt, seed, rng, cells, exit, entry,
                   built, first, profile, nextParams>>

\* a rejected attempt that retries without incrementing the seed
ValidateUnsolvableKeepsSeed ==
    /\ mode = "gen" /\ pc = "validate"
    /\ LET sol == solveMaze(cells, config, exit)
       IN  /\ ~sol.solvable
           /\ solution' = sol
    /\ attempt' = attempt + 1
    /\ pc' = "attempt"
    /\ UNCHANGED <<engineVars, carving, mode, config, params, call, seed, rng, cells, exit, entry,
                   built, maze, first, profile, nextParams>>

\* solveMaze rejected the grid: seed++ and the next iteration
ValidateUnsolvable ==
    /\ mode = "gen" /\ pc = "validate"
    /\ LET sol == solveMaze(cells, config, exit)
       IN  /\ ~sol.solvable
           /\ solution' = sol
    /\ seed' = seed + 1
    /\ attempt' = attempt + 1
    /\ pc' = "attempt"
    /\ UNCHANGED <<engineVars, carving, mode, config, params, call, rng, cells, exit, entry, built, maze,
                   first, profile, nextParams>>

\* the retry budget is spent: return generateFallbackMaze(config, params)
FallbackReturns ==
    /\ mode = "gen" /\ pc = "attempt" /\ attempt >= MAX_REGEN_ATTEMPTS
    /\ LET f == generateFallbackMaze(config, params)
       IN  /\ ~f.threw
           /\ cells' = f.cells
           /\ exit' = f.exit
           /\ maze' = [returned |-> TRUE, fallback |-> TRUE, cells |-> f.cells,
                       exit |-> f.exit, config |-> config, params |-> params,
                       finalSeed |-> f.finalSeed]
    /\ entry' = {}
    /\ pc' = "returned"
    /\ UNCHANGED <<engineVars, carving, mode, config, params, call, attempt, seed, rng, built, solution,
                   first, profile, nextParams>>

\* the retry budget is spent and generateFallbackMaze raises a TypeError
FallbackThrows ==
    /\ mode = "gen" /\ pc = "attempt" /\ attempt >= MAX_REGEN_ATTEMPTS
    /\ LET f == generateFallbackMaze(config, params)
       IN  /\ f.threw
           /\ cells' = f.cells
           /\ exit' = f.exit
    /\ entry' = {}
    /\ pc' = "threw"
    /\ UNCHANGED <<engineVars, carving, mode, config, params, call, attempt, seed, rng, built, solution,
                   maze, first, profile, nextParams>>

\* the caller invokes generateMaze again with the same config and params
SecondCall ==
    /\ mode = "gen" /\ pc \in {"returned", "threw"} /\ call = 1
    /\ first' = [pc |-> pc, maze |-> maze]
    /\ call' = 2
    /\ pc' = "attempt"
    /\ attempt' = 0
    /\ seed' = config.seed
    /\ cells' = NoCells
    /\ exit' = NoExit
    /\ entry' = {}
    /\ built' = 0
    /\ solution' = NoSolution
    /\ maze' = NoMaze
    /\ UNCHANGED <<engineVars, carving, mode, config, params, rng, profile, nextParams>>

GenNext ==
    \/ AttemptInfeasible
    \/ AttemptStart
    \/ CarveSpanningTree
    \/ OpenEntryHoles
    \/ AddExtraOpenings
    \/ CapRadialWalls
    \/ PlaceExit
    \/ EnsurePathToExit
    \/ ValidateSolvable
    \/ ValidateUnsolvable
    \/ FallbackReturns
    \/ FallbackThrows
    \/ SecondCall

Spec == GenInit /\ [][GenNext]_vars

---------------------------------------------------------------------------
(* generateMaze as a function of its arguments, for the callers of the game *)

\* return { cells, exit, config, params, finalSeed }
MazeData(g, e, c, p, finalSeed, fallback) ==
    [returned |-> TRUE, fallback |-> fallback, cells |-> g, exit |-> e, config |-> c,
     params |-> p, finalSeed |-> finalSeed]

\* steps 5 and 6 of an attempt: ensurePathToExit, then solveMaze on its grid
Ensured(c, p, sd, g, e) ==
    [solution |-> solveMaze(g, c, e), maze |-> MazeData(g, e, c, p, sd, FALSE)]

\* step 4 on the grid and generator state o that step 3 left
Exited(c, p, sd, o) == Ensured(c, p, sd, ensurePathToExit(o.cells, c, o.exit), o.exit)

\* steps 3, 2, 1b and 1, each on what the step before it left
Capped(c, p, sd, o) == Exited(c, p, sd, placeExit(o.cells, c, p, o.state))
Opened(c, p, sd, o) == Capped(c, p, sd, capRadialWalls(o.cells, c, p, o.state))
Holed(c, p, sd, o) == Opened(c, p, sd, addExtraOpenings(o.cells, c, p, o.state))
Carved(c, p, sd, o) == Holed(c, p, sd, openEntryHoles(o.cells, c, o.state))

\* one attempt on a feasible config: its solution and the maze it would return
Attempted(c, p, sd) ==
    Carved(c, p, sd, carveSpanningTree(createEmptyGrid(c), c, createRNG(sd)))

\* return generateFallbackMaze(config, params), which may throw
Fallen(c, p, f) ==
    IF f.threw THEN NoMaze ELSE MazeData(f.cells, f.exit, c, p, f.finalSeed, TRUE)

\* for (let attempt = 0; attempt < MAX_REGEN_ATTEMPTS; attempt++)
RECURSIVE GenerateFrom(_, _, _, _)

\* if (solution.solvable) return the maze; else seed++ and the next attempt
Validated(c, p, sd, att, a) ==
    IF a.solution.solvable THEN a.maze ELSE GenerateFrom(c, p, sd + 1, att + 1)

GenerateFrom(c, p, sd, att) ==
    IF att >= MAX_REGEN_ATTEMPTS THEN Fallen(c, p, generateFallbackMaze(c, p))
    ELSE IF ~checkGeometricConstraints(c) THEN GenerateFrom(c, p, sd + 1, att + 1)
    ELSE Validated(c, p, sd, att, Attempted(c, p, sd))

\* generateMaze(config, params): NoMaze when the fallback throws
generateMaze(c, p) == GenerateFrom(c, p, c.seed, 0)

---------------------------------------------------------------------------
(* solveMaze on its own: every grid with agreeing shared walls of at most   *)
(* MaxSolveCells cells, and the grids of three rings and three slices, on   *)
(* which a move inwards can be the only way to the exit; every exit sector  *)
(* of width 0 to 2                                                          *)

MaxSolveCells == 5

SolveConfigs ==
    {[rings |-> r, slices |-> s, seed |-> 0,
      innerRadius |-> FromInt(30), outerRadius |-> FromInt(200),
      ballRadius |-> FromInt(6)] :
        r \in 1 .. MaxSolveCells, s \in 1 .. MaxSolveCells}

\* three rings of three slices: the smallest lattice on which the search
\* reaches a cell first by a move inwards
WideConfig ==
    [rings |-> 3, slices |-> 3, seed |-> 0,
     innerRadius |-> FromInt(30), outerRadius |-> FromInt(200),
     ballRadius |-> FromInt(6)]

\* the grid whose cell (r, s) has outer wall rad[r][s] and clockwise wall
\* tan[r][s]; every ring-0 inner wall is `void`
GridOf(c, rad, tan, void) ==
    [r \in Ring(c) |-> [s \in Slice(c) |->
        [wallInner |-> IF r = 0 THEN void ELSE rad[r - 1][s],
         wallOuter |-> rad[r][s],
         wallCW    |-> tan[r][s],
         wallCCW   |-> tan[r][(s - 1 + c.slices) % c.slices]]]]

\* every grid of the config c
GridsOf(c) ==
    {GridOf(c, rad, tan, void) :
       rad \in [Ring(c) -> [Slice(c) -> BOOLEAN]],
       tan \in [Ring(c) -> [Slice(c) -> BOOLEAN]],
       void \in BOOLEAN}

\* the grids of WideConfig whose ring 0 is closed towards the void and between
\* its cells: the search starts from every ring-0 cell, so these walls decide
\* nothing
WideGrids ==
    {GridOf(WideConfig,
            rad,
            [r \in Ring(WideConfig) |->
               IF r = 0 THEN [s \in Slice(WideConfig) |-> TRUE] ELSE tan[r]],
            TRUE) :
       rad \in [Ring(WideConfig) -> [Slice(WideConfig) -> BOOLEAN]],
       tan \in [1 .. WideConfig.rings - 1 -> [Slice(WideConfig) -> BOOLEAN]]}

SolveInit ==
    /\ EngineIdle
    /\ carving = NoCarving
    /\ mode = "solve"
    /\ config \in {c \in SolveConfigs : c.rings * c.slices <= MaxSolveCells}
                    \cup {WideConfig}
    /\ params = defaultGenerationParams
    /\ pc = "solve"
    /\ call = 1
    /\ attempt = 0
    /\ seed = 0
    /\ rng = NoRng
    /\ cells \in IF config.rings * config.slices <= MaxSolveCells
                 THEN GridsOf(config) ELSE WideGrids
    /\ exit \in [sliceStart : Slice(config), sliceCount : 0 .. 2]
    /\ entry = {}
    /\ built = 0
    /\ solution = NoSolution
    /\ maze = NoMaze
    /\ first = NoMaze
    /\ profile = NoProfile
    /\ nextParams = NoParams

SolveMaze ==
    /\ mode = "solve" /\ pc = "solve"
    /\ solution' = solveMaze(cells, config, exit)
    /\ pc' = "solved"
    /\ UNCHANGED <<engineVars, carving, mode, config, params, call, attempt, seed, rng, cells, exit, entry,
                   built, maze, first, profile, nextParams>>

SolveNext == SolveMaze

SpecSolve == SolveInit /\ [][SolveNext]_vars

---------------------------------------------------------------------------
(* mapProfileToParams on its own *)

\* profiles from the slow, struggling player to the extreme one of the tests
Profiles ==
    {[avgSpeed |-> FromInt(sp), avgIdleRatio |-> FromRatio(1, 10),
      avgRiskRatio |-> FromRatio(rk, 6000), avgCollisions |-> FromInt(co),
      avgDirChanges |-> FromInt(dc), avgExploration |-> FromRatio(ex, 6000),
      avgTime |-> FromInt(tm), attempts |-> at] :
        sp \in {5, 100, 999}, rk \in {0, 7, 6000}, co \in {0, 5, 50},
        dc \in {0, 10, 200}, ex \in {1, 3001, 6000}, tm \in {30, 120},
        at \in {0, 1, 5}}

\* a parameter record with the same value in its six real-valued fields
Uniform(v, eo, ew) ==
    [wallDensity |-> v, branchiness |-> v, corridorWidth |-> v,
     radialDensity |-> v, decoyRate |-> v, pathLengthBias |-> v,
     exitOffset |-> eo, exitWidth |-> ew]

\* previous parameters: the defaults, every clamp minimum, every clamp maximum,
\* the test suite's high wall density, and values far below and above the ranges
PrevParams ==
    {defaultGenerationParams,
     [wallDensity |-> CLAMPS.wallDensity.min, branchiness |-> CLAMPS.branchiness.min,
      corridorWidth |-> CLAMPS.corridorWidth.min,
      radialDensity |-> CLAMPS.radialDensity.min, decoyRate |-> CLAMPS.decoyRate.min,
      pathLengthBias |-> CLAMPS.pathLengthBias.min,
      exitOffset |-> -1, exitWidth |-> 1],
     [wallDensity |-> CLAMPS.wallDensity.max, branchiness |-> CLAMPS.branchiness.max,
      corridorWidth |-> CLAMPS.corridorWidth.max,
      radialDensity |-> CLAMPS.radialDensity.max, decoyRate |-> CLAMPS.decoyRate.max,
      pathLengthBias |-> CLAMPS.pathLengthBias.max,
      exitOffset |-> 3, exitWidth |-> 2],
     [defaultGenerationParams EXCEPT !.wallDensity = FromRatio(9, 10),
                                     !.branchiness = FromRatio(1, 10)],
     [Uniform(FZero, 0, 0) EXCEPT !.decoyRate = FromInt(-1)],
     Uniform(FromInt(10), -1, 5)}

MapInit ==
    /\ EngineIdle
    /\ carving = NoCarving
    /\ mode = "map"
    /\ config = [rings |-> 1, slices |-> 1, seed |-> 0,
                 innerRadius |-> FromInt(30), outerRadius |-> FromInt(200),
      ballRadius |-> FromInt(6)]
    /\ params \in PrevParams
    /\ pc = "map"
    /\ call = 1
    /\ attempt = 0
    /\ seed = 0
    /\ rng = NoRng
    /\ cells = NoCells
    /\ exit = NoExit
    /\ entry = {}
    /\ built = 0
    /\ solution = NoSolution
    /\ maze = NoMaze
    /\ first = NoMaze
    /\ profile \in Profiles
    /\ nextParams = NoParams

MapProfileToParams ==
    /\ mode = "map" /\ pc = "map"
    /\ nextParams' = mapProfileToParams(profile, params)
    /\ pc' = "mapped"
    /\ UNCHANGED <<engineVars, carving, mode, config, params, call, attempt, seed, rng, cells, exit, entry,
                   built, solution, maze, first, profile>>

MapNext == MapProfileToParams

SpecMap == MapInit /\ [][MapNext]_vars


---------------------------------------------------------------------------
(* Reachability through cleared walls, read off the grid alone *)

CellsOf(c) == Ring(c) \X Slice(c)

\* cell a has a cleared wall towards cell b
Passage(g, c, a, b) ==
    \/ a[1] > 0 /\ ~g[a[1]][a[2]].wallInner /\ b = <<a[1] - 1, a[2]>>
    \/ a[1] < c.rings - 1 /\ ~g[a[1]][a[2]].wallOuter /\ b = <<a[1] + 1, a[2]>>
    \/ ~g[a[1]][a[2]].wallCW /\ b = <<a[1], (a[2] + 1) % c.slices>>
    \/ ~g[a[1]][a[2]].wallCCW /\ b = <<a[1], (a[2] - 1 + c.slices) % c.slices>>

\* the cells next to cell a, and those of them a has a cleared wall towards
Around(c, a) ==
    {<<a[1] - 1, a[2]>>, <<a[1] + 1, a[2]>>,
     <<a[1], (a[2] + 1) % c.slices>>, <<a[1], (a[2] - 1 + c.slices) % c.slices>>}
      \cap CellsOf(c)

Adjacent(g, c, a) == {b \in Around(c, a) : Passage(g, c, a, b)}

Grow(g, c, S) == S \cup UNION {Adjacent(g, c, a) : a \in S}

RECURSIVE Reachable(_, _, _)

\* S when it has stopped growing, else what is reachable from T = Grow(g, c, S)
Settled(g, c, S, T) == IF T \subseteq S THEN S ELSE Reachable(g, c, T)

\* the least set that contains S and is closed under Grow
Reachable(g, c, S) ==
    CHOOSE R \in {Settled(g, c, S, T) : T \in {Grow(g, c, S)}} : TRUE

\* the cells of the exit sector, and those of them whose outer wall is cleared
ExitSector(c, e) ==
    {<<c.rings - 1, (e.sliceStart + i) % c.slices>> : i \in 0 .. e.sliceCount - 1}

ExitOpen(g, c, e) == {x \in ExitSector(c, e) : ~g[x[1]][x[2]].wallOuter}

RingZero(c) == {<<0, s>> : s \in Slice(c)}

\* the ring-0 cells the ball can enter from the void
EntryCells(g, c) == {x \in RingZero(c) : ~g[x[1]][x[2]].wallInner}

ExitReachable(g, c, e, from) == Reachable(g, c, from) \cap ExitOpen(g, c, e) # {}

WallsAgree(g, c) ==
    /\ \A r \in Ring(c), s \in Slice(c) :
          r < c.rings - 1 => g[r][s].wallOuter = g[r + 1][s].wallInner
    /\ \A r \in Ring(c), s \in Slice(c) :
          g[r][s].wallCW = g[r][(s + 1) % c.slices].wallCCW

Playable(m) ==
    /\ EntryCells(m.cells, m.config) # {}
    /\ ExitReachable(m.cells, m.config, m.exit, EntryCells(m.cells, m.config))

Finished == mode = "gen" /\ pc \in {"returned", "threw"}
Returned == mode = "gen" /\ pc = "returned"

---------------------------------------------------------------------------
(* Claims *)

\* C1: every call of generateMaze with rings >= 1 and slices >= 1 returns
\* without throwing, and solveMaze accepts the returned cells, config and exit,
\* for a successful attempt and for the fallback alike.
C1_AlwaysReturnsSolvable ==
    Finished => /\ pc = "returned"
                /\ solveMaze(maze.cells, maze.config, maze.exit).solvable

\* C2: every returned maze, the fallback included, has a ring-0 cell with its
\* inner wall cleared, and the exit sector is reachable through cleared walls
\* from such a cell.
C2_PlayableFromVoid == Returned => Playable(maze)

\* C3: in every returned maze exit.sliceCount >= 1 and every slice of the exit
\* sector has its outer wall cleared on the outermost ring.
C3_ExitSectorOpen ==
    Returned => /\ maze.exit.sliceCount >= 1
                /\ \A i \in 0 .. maze.exit.sliceCount - 1 :
                      ~maze.cells[config.rings - 1]
                                 [(maze.exit.sliceStart + i) % config.slices].wallOuter

\* C3 witness: an attempt's maze whose two-slice exit sector wraps around slice 0
C3_Witness ==
    /\ Returned /\ ~maze.fallback
    /\ maze.exit.sliceCount = 2
    /\ maze.exit.sliceStart = config.slices - 1
    /\ config.slices >= 3

\* C4: after every generation step and in the returned maze the two flags of
\* every shared wall agree, radially and tangentially (with wrap-around).
C4_SharedWallsAgree ==
    /\ (mode = "gen" /\ cells # NoCells) => WallsAgree(cells, config)
    /\ Returned => WallsAgree(maze.cells, config)

\* C4 witness: a maze returned by an attempt that carved radial and tangential
\* walls of a grid with several rings and slices
C4_Witness ==
    /\ Returned /\ ~maze.fallback
    /\ config.rings >= 2 /\ config.slices >= 3
    /\ \E s \in Slice(config) : ~maze.cells[0][s].wallOuter
    /\ \E s \in Slice(config) : ~maze.cells[1][s].wallCW

\* C5: a second call with the same config and params returns the same wall
\* flags for every cell, the same exit sector and the same finalSeed.
C5_Deterministic ==
    (Returned /\ call = 2) =>
        /\ first.pc = "returned"
        /\ first.maze.cells = maze.cells
        /\ first.maze.exit = maze.exit
        /\ first.maze.finalSeed = maze.finalSeed

\* C5 witness: both calls returned a maze of an attempt that drew its exit
\* slice from the generator
C5_Witness ==
    /\ Returned /\ call = 2 /\ ~maze.fallback
    /\ first.pc = "returned"
    /\ params.exitOffset < 0
    /\ config.rings >= 2 /\ config.slices >= 2

\* C8: with a geometrically infeasible config no attempt builds a grid and
\* generateMaze still returns the fallback maze, never raising an error.
C8_InfeasibleReturnsFallback ==
    (Finished /\ ~checkGeometricConstraints(config)) =>
        /\ pc = "returned"
        /\ built = 0
        /\ maze.fallback

Solved == mode = "solve" /\ pc = "solved"

\* C6: solveMaze reports solvable exactly when a cell of the exit sector with
\* its outer wall cleared is reachable from a ring-0 cell through cleared
\* walls, and otherwise returns an empty path.
C6_SolvableIffReachable ==
    Solved => /\ solution.solvable <=> ExitReachable(cells, config, exit, RingZero(config))
              /\ ~solution.solvable => solution.path = <<>>

\* C6 witness: a solvable grid of three rings whose path to the exit goes
\* out to the outermost ring, along it, in to the middle ring, along it and
\* out again: the move inwards is the only way to the open exit cell
C6_Witness ==
    /\ Solved /\ solution.solvable
    /\ config.rings = 3 /\ config.slices = 3
    /\ \E i \in 1 .. Len(solution.path) - 1 :
          solution.path[i + 1][1] < solution.path[i][1]
    /\ ~ExitReachable(
           [r \in Ring(config) |-> [s \in Slice(config) |->
               [cells[r][s] EXCEPT !.wallInner = (r > 0) \/ @]]],
           config, exit, RingZero(config))

PathLast == solution.path[Len(solution.path)]

\* C7: a solvable result has a non-empty path from a ring-0 cell to a cell of
\* the exit sector on the outermost ring with its outer wall cleared, and every
\* two consecutive path cells are adjacent with the wall between them cleared.
C7_PathShape ==
    (Solved /\ solution.solvable) =>
        /\ Len(solution.path) >= 1
        /\ solution.path[1][1] = 0
        /\ PathLast[1] = config.rings - 1
        /\ PathLast \in ExitOpen(cells, config, exit)
        /\ \A i \in 1 .. Len(solution.path) - 1 :
              /\ solution.path[i + 1] \in CellsOf(config)
              /\ Passage(cells, config, solution.path[i], solution.path[i + 1])
              /\ Passage(cells, config, solution.path[i + 1], solution.path[i])

\* C7 witness: a path with a radial and a tangential move
C7_Witness ==
    /\ Solved /\ solution.solvable
    /\ Len(solution.path) = 3
    /\ solution.path[2][2] # solution.path[3][2]

Mapped == mode = "map" /\ pc = "mapped"

InRange(v, range) == FLeq(range.min, v) /\ FLeq(v, range.max)

\* C9: for a profile with at least one attempt and any previous parameters
\* every field of the mapper's output lies in its safe range.
C9_OutputClamped ==
    (Mapped /\ profile.attempts >= 1) =>
        /\ InRange(nextParams.wallDensity, CLAMPS.wallDensity)
        /\ InRange(nextParams.branchiness, CLAMPS.branchiness)
        /\ InRange(nextParams.corridorWidth, CLAMPS.corridorWidth)
        /\ InRange(nextParams.radialDensity, CLAMPS.radialDensity)
        /\ InRange(nextParams.decoyRate, CLAMPS.decoyRate)
        /\ InRange(nextParams.pathLengthBias, CLAMPS.pathLengthBias)
        /\ nextParams.exitWidth \in CLAMPS.exitWidth.min .. CLAMPS.exitWidth.max

\* C9 witness: previous values far above the ranges and an extreme profile,
\* where only the upper clamp brings the wall density back to 0.7
C9_Witness ==
    /\ Mapped /\ profile.attempts >= 1
    /\ FGreater(params.wallDensity, FAdd(CLAMPS.wallDensity.max, MAX_DELTA))
    /\ profile.avgSpeed = FromInt(999)
    /\ nextParams.wallDensity = CLAMPS.wallDensity.max

\* Math.abs(a - b) <= 0.1
Within(a, b) == FLeq(FAbs(FSub(a, b)), MAX_DELTA)

\* C10: for a profile with at least one attempt and any previous parameters
\* every tunable of the mapper's output, the exit width included, differs
\* from its previous value by at most 0.1.
C10_ChangeRateLimited ==
    (Mapped /\ profile.attempts >= 1) =>
        /\ Within(nextParams.wallDensity, params.wallDensity)
        /\ Within(nextParams.branchiness, params.branchiness)
        /\ Within(nextParams.corridorWidth, params.corridorWidth)
        /\ Within(nextParams.radialDensity, params.radialDensity)
        /\ Within(nextParams.decoyRate, params.decoyRate)
        /\ Within(nextParams.pathLengthBias, params.pathLengthBias)
        /\ Within(FromInt(nextParams.exitWidth), FromInt(params.exitWidth))

\* C11: with a profile of zero attempts the mapper returns the previous
\* parameters unchanged in all eight fields: no clamping, no rate limiting,
\* and the exit offset is kept.
C11_ZeroAttemptsKeepsParams ==
    (Mapped /\ profile.attempts = 0) => nextParams = params

\* C11 witness: previous parameters below every clamp range, with a fixed exit
\* offset and an exit width of 0, come back as they were for an extreme profile
C11_Witness ==
    /\ Mapped /\ profile.attempts = 0
    /\ FLess(params.wallDensity, CLAMPS.wallDensity.min)
    /\ params.exitWidth < CLAMPS.exitWidth.min
    /\ params.exitOffset = 0
    /\ nextParams.exitOffset = 0
    /\ nextParams.wallDensity = params.wallDensity
    /\ profile.avgSpeed = FromInt(999)


---------------------------------------------------------------------------
(* The player profile (adapt/profile.ts): updateProfile on its own.  The    *)
(* fields of a snapshot and of a profile are JavaScript numbers.            *)

\* const EMA_ALPHA = 0.3
EMA_ALPHA == FromRatio(3, 10)

createProfile ==
    [avgSpeed |-> FZero, avgIdleRatio |-> FZero, avgRiskRatio |-> FZero,
     avgCollisions |-> FZero, avgDirChanges |-> FZero, avgExploration |-> FZero,
     avgTime |-> FZero, attempts |-> 0]

\* an average that gives the latest attempt the weight 1 - EMA_ALPHA
emaSwapped(prev, current) ==
    FAdd(FMul(prev, EMA_ALPHA), FMul(current, FSub(FromInt(1), EMA_ALPHA)))

\* prev * (1 - EMA_ALPHA) + current * EMA_ALPHA
ema(prev, current) ==
    FAdd(FMul(prev, FSub(FromInt(1), EMA_ALPHA)), FMul(current, EMA_ALPHA))

\* the profile after updateProfile(pf, metrics)
updateProfile(pf, metrics) ==
    IF pf.attempts + 1 = 1
    THEN [avgSpeed       |-> metrics.avgSpeed,
          avgIdleRatio   |-> metrics.idleRatio,
          avgRiskRatio   |-> metrics.riskRatio,
          avgCollisions  |-> metrics.collisionCount,
          avgDirChanges  |-> metrics.directionChanges,
          avgExploration |-> metrics.exploration,
          avgTime        |-> metrics.totalTime,
          attempts       |-> pf.attempts + 1]
    ELSE [avgSpeed       |-> ema(pf.avgSpeed, metrics.avgSpeed),
          avgIdleRatio   |-> ema(pf.avgIdleRatio, metrics.idleRatio),
          avgRiskRatio   |-> ema(pf.avgRiskRatio, metrics.riskRatio),
          avgCollisions  |-> ema(pf.avgCollisions, metrics.collisionCount),
          avgDirChanges  |-> ema(pf.avgDirChanges, metrics.directionChanges),
          avgExploration |-> ema(pf.avgExploration, metrics.exploration),
          avgTime        |-> ema(pf.avgTime, metrics.totalTime),
          attempts       |-> pf.attempts + 1]

\* updateProfile calls made on one profile
MaxUpdates == 4

\* an AttemptMetrics as snapshotMetrics builds it (won is always false there)
Snapshot(t, sp, idle, risk, co, dc, ex) ==
    [totalTime |-> t, avgSpeed |-> sp, idleRatio |-> idle, riskRatio |-> risk,
     collisionCount |-> co, directionChanges |-> dc, exploration |-> ex,
     won |-> FALSE]

\* the snapshot of the test suite, a slow cautious attempt, a fast reckless
\* one, and the snapshot of an attempt without a single tick
Snapshots ==
    {Snapshot(FromInt(30), FromInt(100), FromRatio(1, 10), FromRatio(2, 10),
              FromInt(5), FromInt(10), FromRatio(5, 10)),
     Snapshot(FromInt(120), FromInt(10), FromRatio(75, 100), FZero,
              FromInt(3), FromInt(12), FromRatio(1, 84)),
     Snapshot(FromRatio(25, 10), FromInt(500), FZero, FromInt(1),
              FromInt(50), FromInt(200), FromInt(1)),
     Snapshot(FZero, FZero, FZero, FZero, FZero, FZero, FZero)}

\* the idle values of the maze, solver and mapping state
MazeIdle ==
    /\ config = [rings |-> 1, slices |-> 1, seed |-> 0,
                 innerRadius |-> FromInt(30), outerRadius |-> FromInt(200),
      ballRadius |-> FromInt(6)]
    /\ params = defaultGenerationParams
    /\ call = 1
    /\ attempt = 0
    /\ seed = 0
    /\ rng = NoRng
    /\ cells = NoCells
    /\ exit = NoExit
    /\ entry = {}
    /\ built = 0
    /\ solution = NoSolution
    /\ maze = NoMaze
    /\ first = NoMaze
    /\ nextParams = NoParams
    /\ carving = NoCarving

ProfileInit ==
    /\ mode = "profile"
    /\ pc = "profile"
    /\ MazeIdle
    /\ profile = createProfile
    /\ lastMetrics = NoMetrics
    /\ instances = <<>>
    /\ drawn = <<>>
    /\ timeState = NoTime
    /\ alpha = -1
    /\ ticked = -1
    /\ ball = NoBall
    /\ walls = <<>>
    /\ contact = <<>>
    /\ game = NoGame
    /\ tracker = NoTracker
    /\ input = NoInput

\* updateProfile(profile, metrics) for a snapshot of some ended attempt
UpdateProfile ==
    /\ mode = "profile"
    /\ profile.attempts < MaxUpdates
    /\ \E metrics \in Snapshots :
         /\ lastMetrics' = metrics
         /\ profile' = updateProfile(profile, metrics)
    /\ UNCHANGED <<mode, pc, mazeVars, instances, drawn, timeState, alpha, ticked,
                   ball, walls, contact, game, tracker, input>>

ProfileNext == UpdateProfile

SpecProfile == ProfileInit /\ [][ProfileNext]_vars

\* profile field and the snapshot field it follows
Tracked ==
    {<<"avgSpeed", "avgSpeed">>, <<"avgIdleRatio", "idleRatio">>,
     <<"avgRiskRatio", "riskRatio">>, <<"avgCollisions", "collisionCount">>,
     <<"avgDirChanges", "directionChanges">>, <<"avgExploration", "exploration">>,
     <<"avgTime", "totalTime">>}

\* C12: every updateProfile call adds exactly 1 to attempts; the first call on
\* a fresh profile sets each tracked field to the snapshot's field, and every
\* later call sets it to 0.7 * previous value + 0.3 * snapshot value.
C12_UpdateProfileStep ==
    [][/\ profile'.attempts = profile.attempts + 1
       /\ \A f \in Tracked :
            profile'[f[1]] =
               IF profile.attempts = 0 THEN lastMetrics'[f[2]]
               ELSE FAdd(FMul(FromRatio(7, 10), profile[f[1]]),
                         FMul(FromRatio(3, 10), lastMetrics'[f[2]]))]_vars

\* C12 witness: a third call has averaged the test suite's snapshot into a
\* profile that the slow attempt started
C12_Witness ==
    /\ mode = "profile"
    /\ profile.attempts = 3
    /\ lastMetrics.avgSpeed = FromInt(100)
    /\ FLess(FromInt(10), profile.avgSpeed)
    /\ FLess(profile.avgSpeed, FromInt(100))
    /\ profile.avgCollisions # lastMetrics.collisionCount

\* lo <= x <= hi for the two bounds in either order
Between(a, x, b) == FLeq(FMin(a, b), x) /\ FLeq(x, FMax(a, b))

\* C13: once a profile holds at least one attempt, every further call leaves
\* each tracked field between its previous value and the snapshot's value, so
\* with a constant snapshot value v the field moves towards v, never away from
\* it and never past it.
C13_MonotoneConvergence ==
    [][profile.attempts >= 1 =>
          \A f \in Tracked :
             Between(profile[f[1]], profile'[f[1]], lastMetrics'[f[2]])]_vars


---------------------------------------------------------------------------
(* engine/rng.ts: several RNG instances drawn from in any order.  Each      *)
(* createRNG call has its own `state`; instances maps the instance to it.   *)

\* calls made on one instance
MaxDraws == 2

\* seeds of the instances a and b (the same) and of the instance c
RngSeeds == {<<77, 99>>}

\* arguments of nextInt: those of the test suite and a range from below zero
IntRanges == {<<3, 10>>, <<-2, 1>>}

\* arguments of nextFloat
FloatRanges == {<<FromRatio(-5, 10), FromRatio(15, 10)>>}

\* arguments of shuffle: the array of the test suite
ShuffleArrays == {<<1, 2, 3, 4, 5, 6, 7, 8>>}

\* calls made on an instance: every next() of a call is listed with its number
Calls(log) == IF log = <<>> THEN 0 ELSE log[Len(log)].call

\* one `state` for every instance: an assignment reaches all of them
setStateGlobal(inst, i, st) == [j \in DOMAIN inst |-> st]

\* the assignment to `state` inside instance i
setState(inst, i, st) == [inst EXCEPT ![i] = st]

RngInit ==
    /\ mode = "rng"
    /\ pc = "rng"
    /\ MazeIdle
    /\ profile = NoProfile
    /\ lastMetrics = NoMetrics
    /\ \E sd \in RngSeeds :
         instances = [a |-> createRNG(sd[1]), b |-> createRNG(sd[1]),
                      c |-> createRNG(sd[2])]
    /\ drawn = [a |-> <<>>, b |-> <<>>, c |-> <<>>]
    /\ timeState = NoTime
    /\ alpha = -1
    /\ ticked = -1
    /\ ball = NoBall
    /\ walls = <<>>
    /\ contact = <<>>
    /\ game = NoGame
    /\ tracker = NoTracker
    /\ input = NoInput

RngUnchanged ==
    UNCHANGED <<mode, pc, profile, mazeVars, lastMetrics, timeState, alpha, ticked,
                ball, walls, contact, game, tracker, input>>

\* what a call leaves behind when its next() was the draw d
Returned32(i, op, d, min, max, n) ==
    /\ instances' = setState(instances, i, d.state)
    /\ drawn' = [drawn EXCEPT ![i] =
                    Append(@, [op |-> op, u |-> d.u, min |-> min, max |-> max,
                               n |-> n, call |-> Calls(@) + 1])]
    /\ RngUnchanged

\* instance i: next()
Next(i) ==
    /\ mode = "rng"
    /\ Calls(drawn[i]) < MaxDraws
    /\ Returned32(i, "next", next(instances[i]), 0, 0, 0)

NextIntOf(i, min, max, d) ==
    Returned32(i, "nextInt", d, min, max, IntFrom(d, min, max).n)

\* instance i: nextInt(min, max) = Math.floor(next() * (max - min)) + min
NextInt(i, min, max) ==
    /\ mode = "rng"
    /\ Calls(drawn[i]) < MaxDraws
    /\ NextIntOf(i, min, max, next(instances[i]))

\* instance i: nextFloat(min, max) = next() * (max - min) + min
NextFloat(i, min, max) ==
    /\ mode = "rng"
    /\ Calls(drawn[i]) < MaxDraws
    /\ \E d \in {nextFloat(instances[i], min, max)} :
         Returned32(i, "nextFloat", d, min, max, d.v)

\* the draws of one shuffle call, as entries of the list of instance i
ShuffleDraws(i, draws) ==
    [k \in DOMAIN draws |->
        [op |-> "shuffle", u |-> draws[k].u, min |-> 0, max |-> draws[k].max,
         n |-> draws[k].n, arr |-> draws[k].arr, call |-> Calls(drawn[i]) + 1]]

\* instance i: shuffle(arr)
Shuffle(i, arr) ==
    /\ mode = "rng"
    /\ Calls(drawn[i]) < MaxDraws
    /\ \E o \in {shuffle(instances[i], arr)} :
         /\ instances' = setState(instances, i, o.state)
         /\ drawn' = [drawn EXCEPT ![i] = @ \o ShuffleDraws(i, o.draws)]
    /\ RngUnchanged

\* the instances a and b are drawn from in every way, the instance c by next()
RngNext ==
    \E i \in {"a", "b", "c"} :
       \/ Next(i)
       \/ \E range \in IntRanges : i # "c" /\ NextInt(i, range[1], range[2])
       \/ \E range \in FloatRanges : i # "c" /\ NextFloat(i, range[1], range[2])
       \/ \E arr \in ShuffleArrays : i # "c" /\ Shuffle(i, arr)

SpecRng == RngInit /\ [][RngNext]_vars

\* the shorter of the lengths of two sequences
Common(p, q) == 1 .. Min(Len(p), Len(q))

\* C14: the instances a and b, created with the same seed, return the same
\* next() values position by position, whatever the order in which a, b and the
\* third instance c were drawn from.
C14_SameSeedSameSequence ==
    mode = "rng" => \A k \in Common(drawn.a, drawn.b) : drawn.a[k].u = drawn.b[k].u

\* C14 witness: a and b have each been drawn from to the bound, c at least once,
\* and the draws of a are not all one value
C14_Witness ==
    /\ mode = "rng"
    /\ Calls(drawn.a) = MaxDraws /\ Calls(drawn.b) = MaxDraws /\ Len(drawn.c) >= 1
    /\ drawn.a[1].u # drawn.a[2].u
    /\ drawn.a[1].u # drawn.c[1].u

\* the numerator u of a next() value lies in 0 .. 2^32 - 1
UnitInterval(u) == u[1] >= 0 /\ u[1] < 65536 /\ u[2] >= 0 /\ u[2] < 65536

\* C15: every next() value v = u / 2^32 satisfies 0 <= v < 1, and every
\* nextInt(min, max) with min < max returns an integer n with min <= n < max.
C15_DrawsInRange ==
    mode = "rng" =>
       \A i \in DOMAIN drawn : \A k \in 1 .. Len(drawn[i]) :
          /\ UnitInterval(drawn[i][k].u)
          /\ drawn[i][k].op \in {"nextInt", "shuffle"} =>
                (drawn[i][k].min <= drawn[i][k].n /\ drawn[i][k].n < drawn[i][k].max)

\* C15 witness: a nextInt(3, 10) returned a value above 3 and the nextInt(-2, 1)
\* after it a value below 0
C15_Witness ==
    /\ mode = "rng"
    /\ Len(drawn.a) = 2
    /\ drawn.a[1].op = "nextInt" /\ drawn.a[1].min = 3 /\ drawn.a[1].n > 3
    /\ drawn.a[2].op = "nextInt" /\ drawn.a[2].min = -2 /\ drawn.a[2].n < 0


---------------------------------------------------------------------------
(* engine/input.ts: the fixed-timestep loop.  Times are JavaScript numbers; *)
(* ticks counts the physicsTick callbacks of one updateTime call.           *)

\* const PHYSICS_HZ = 120
PHYSICS_HZ == 120

\* const FIXED_DT = 1 / PHYSICS_HZ
FIXED_DT == FromRatio(1, PHYSICS_HZ)

\* const MAX_FRAME_TIME = 0.1
MAX_FRAME_TIME == FromRatio(1, 10)

\* createTimeState() when performance.now() returns `now` milliseconds
createTimeState(now) ==
    [accumulator |-> FZero, lastTime |-> FDiv(now, FromInt(1000)),
     alpha |-> FZero, elapsed |-> FZero]

\* while (state.accumulator >= FIXED_DT) { physicsTick(FIXED_DT); ... }, then
\* state.alpha = state.accumulator / FIXED_DT
RECURSIVE TickLoop(_, _)
TickLoop(st, n) ==
    IF FGeq(st.accumulator, FIXED_DT)
    THEN TickLoop([st EXCEPT !.accumulator = FSub(@, FIXED_DT),
                             !.elapsed = FAdd(@, FIXED_DT)], n + 1)
    ELSE [state |-> [st EXCEPT !.alpha = FDiv(st.accumulator, FIXED_DT)],
          ticks |-> n]

\* state.lastTime = currentTime; clamp of frameTime; state.accumulator += frameTime
Accumulate(st, currentTime, frameTime) ==
    TickLoop([st EXCEPT !.lastTime = currentTime,
                        !.accumulator =
                           FAdd(@, IF FGreater(frameTime, MAX_FRAME_TIME)
                                   THEN MAX_FRAME_TIME ELSE frameTime)], 0)

FrameAt(st, currentTime) == Accumulate(st, currentTime, FSub(currentTime, st.lastTime))

\* updateTime(state, now, physicsTick): the state it leaves and the ticks it ran
updateTime(st, now) == FrameAt(st, FDiv(now, FromInt(1000)))

\* updateTime calls of one behaviour
MaxFrames == 3

\* frame timestamps in milliseconds: a 60 Hz cadence, a frame shorter than one
\* tick, frames of 75 ms and 100 ms, a stall of 850 ms, and a start of the
\* clock at 1000 ms; a behaviour takes them in any order
Timestamps == {FromInt(1000), FromInt(1004), FromInt(1017), FromInt(1033),
               FromInt(1075), FromInt(1150), FromInt(1175), FromInt(2000)}

TimeInit ==
    /\ mode = "time"
    /\ pc = 0
    /\ MazeIdle
    /\ profile = NoProfile
    /\ lastMetrics = NoMetrics
    /\ instances = <<>>
    /\ drawn = <<>>
    /\ timeState = createTimeState(FromInt(1000))
    /\ alpha = FZero
    /\ ticked = 0
    /\ ball = NoBall
    /\ walls = <<>>
    /\ contact = <<>>
    /\ game = NoGame
    /\ tracker = NoTracker
    /\ input = NoInput

Updated(r) ==
    /\ timeState' = r.state
    /\ alpha' = r.state.alpha
    /\ ticked' = r.ticks

\* one animation frame: updateTime(timeState, now, physicsTick); pc counts them
UpdateTime ==
    /\ mode = "time"
    /\ pc < MaxFrames
    /\ \E now \in Timestamps : Updated(updateTime(timeState, now))
    /\ pc' = pc + 1
    /\ UNCHANGED <<mode, profile, mazeVars, lastMetrics, instances, drawn, ball,
                   walls, contact, game, tracker, input>>

TimeNext == UpdateTime

SpecTime == TimeInit /\ [][TimeNext]_vars

\* C16: after every updateTime call the returned fraction alpha satisfies
\* 0 <= alpha < 1 and the accumulator is left in [0, FIXED_DT), whatever the
\* sequence of timestamps.
C16_AlphaInUnitInterval ==
    (mode = "time" /\ pc > 0) =>
        /\ FGeq(alpha, FZero) /\ FLess(alpha, FromInt(1))
        /\ FGeq(timeState.accumulator, FZero)
        /\ FLess(timeState.accumulator, FIXED_DT)


---------------------------------------------------------------------------
(* engine/physics.ts: the ball.  Math.sin and Math.cos are tabulated for    *)
(* the maze angles a behaviour can take: no rotation, and one or two ticks  *)
(* of rotation to either side.                                              *)

GRAVITY     == FromInt(600)            \* const GRAVITY = 600
FRICTION    == FromRatio(985, 1000)    \* const FRICTION = 0.985
RESTITUTION == FromRatio(4, 10)        \* const RESTITUTION = 0.4
MAX_SPEED   == FromInt(800)            \* const MAX_SPEED = 800

\* const ROT_SPEED = 2.5
ROT_SPEED == FromRatio(25, 10)

TrigTable ==
    {\* -2 * ROT_SPEED * FIXED_DT = -0.041666666666666664: sin -0.041654611386019086, cos 0.9991320700239181
     [angle |-> [neg |-> TRUE, m |-> <<21845, 10922, 21845, 170>>, e |-> -57],
      sin |-> [neg |-> TRUE, m |-> <<22092, 9861, 20227, 170>>, e |-> -57],
      cos |-> [neg |-> FALSE, m |-> <<26236, 9032, 25487, 255>>, e |-> -53]],
     \* -1 * ROT_SPEED * FIXED_DT = -0.020833333333333332: sin -0.020831826325142813, cos 0.9997829939601689
     [angle |-> [neg |-> TRUE, m |-> <<21845, 10922, 21845, 170>>, e |-> -58],
      sin |-> [neg |-> TRUE, m |-> <<14340, 26178, 21440, 170>>, e |-> -58],
      cos |-> [neg |-> FALSE, m |-> <<32015, 20361, 30947, 255>>, e |-> -53]],
     \* 0 * ROT_SPEED * FIXED_DT = 0.0: sin 0.0, cos 1.0
     [angle |-> FZero,
      sin |-> FZero,
      cos |-> [neg |-> FALSE, m |-> <<0, 0, 0, 128>>, e |-> -52]],
     \* 1 * ROT_SPEED * FIXED_DT = 0.020833333333333332: sin 0.020831826325142813, cos 0.9997829939601689
     [angle |-> [neg |-> FALSE, m |-> <<21845, 10922, 21845, 170>>, e |-> -58],
      sin |-> [neg |-> FALSE, m |-> <<14340, 26178, 21440, 170>>, e |-> -58],
      cos |-> [neg |-> FALSE, m |-> <<32015, 20361, 30947, 255>>, e |-> -53]],
     \* 2 * ROT_SPEED * FIXED_DT = 0.041666666666666664: sin 0.041654611386019086, cos 0.9991320700239181
     [angle |-> [neg |-> FALSE, m |-> <<21845, 10922, 21845, 170>>, e |-> -57],
      sin |-> [neg |-> FALSE, m |-> <<22092, 9861, 20227, 170>>, e |-> -57],
      cos |-> [neg |-> FALSE, m |-> <<26236, 9032, 25487, 255>>, e |-> -53]]}

Angles == {row.angle : row \in TrigTable}

\* Math.sin(a) and Math.cos(a) for a tabulated angle
Sin(a) == (CHOOSE row \in TrigTable : row.angle = a).sin
Cos(a) == (CHOOSE row \in TrigTable : row.angle = a).cos

\* Math.sin and Math.cos are implementation-approximated.  V8 computes them by
\* its port of fdlibm or, when built with libm trigonometry as in Chromium, by
\* code taken from glibc.  The two agree on the angles of TrigTable.  ArcTable
\* holds the fdlibm values for the angles at which the walls of twelve slices
\* are tessellated, theta0 + i * dTheta for i = 0 .. 8 and theta1, and LibmTable
\* the rows of ArcTable in which glibc differs in the last digit.
ArcTable ==
    {\* 0.0
     [angle |-> FZero,
      sin |-> FZero,
      cos |-> [neg |-> FALSE, m |-> <<0, 0, 0, 128>>, e |-> -52]],
     \* 0.06544984694978735
     [angle |-> [neg |-> FALSE, m |-> <<29541, 28762, 1352, 134>>, e |-> -56],
      sin |-> [neg |-> FALSE, m |-> <<31371, 23090, 30985, 133>>, e |-> -56],
      cos |-> [neg |-> FALSE, m |-> <<7238, 11349, 14807, 255>>, e |-> -53]],
     \* 0.1308996938995747
     [angle |-> [neg |-> FALSE, m |-> <<29541, 28762, 1352, 134>>, e |-> -55],
      sin |-> [neg |-> FALSE, m |-> <<8912, 7899, 21588, 133>>, e |-> -55],
      cos |-> [neg |-> FALSE, m |-> <<26779, 9688, 26538, 253>>, e |-> -53]],
     \* 0.19634954084936207
     [angle |-> [neg |-> FALSE, m |-> <<11544, 10376, 2029, 201>>, e |-> -55],
      sin |-> [neg |-> FALSE, m |-> <<9738, 30931, 25312, 199>>, e |-> -55],
      cos |-> [neg |-> FALSE, m |-> <<23728, 8174, 2655, 251>>, e |-> -53]],
     \* 0.2617993877991494
     [angle |-> [neg |-> FALSE, m |-> <<29541, 28762, 1352, 134>>, e |-> -54],
      sin |-> [neg |-> FALSE, m |-> <<1680, 806, 16887, 132>>, e |-> -54],
      cos |-> [neg |-> FALSE, m |-> <<16149, 3729, 9077, 247>>, e |-> -53]],
     \* 0.32724923474893675
     [angle |-> [neg |-> FALSE, m |-> <<20542, 3185, 18075, 167>>, e |-> -54],
      sin |-> [neg |-> FALSE, m |-> <<15175, 11151, 18907, 164>>, e |-> -54],
      cos |-> [neg |-> FALSE, m |-> <<27051, 21617, 13569, 242>>, e |-> -53]],
     \* 0.39269908169872414
     [angle |-> [neg |-> FALSE, m |-> <<11544, 10376, 2029, 201>>, e |-> -54],
      sin |-> [neg |-> FALSE, m |-> <<10595, 19805, 30602, 195>>, e |-> -54],
      cos |-> [neg |-> FALSE, m |-> <<3398, 7781, 16815, 236>>, e |-> -53]],
     \* 0.4581489286485115
     [angle |-> [neg |-> FALSE, m |-> <<2545, 17567, 18751, 234>>, e |-> -54],
      sin |-> [neg |-> FALSE, m |-> <<26363, 29168, 14804, 226>>, e |-> -54],
      cos |-> [neg |-> FALSE, m |-> <<20725, 28003, 19641, 229>>, e |-> -53]],
     \* 0.5235987755982988
     [angle |-> [neg |-> FALSE, m |-> <<29541, 28762, 1352, 134>>, e |-> -53],
      sin |-> [neg |-> FALSE, m |-> <<32767, 32767, 32767, 255>>, e |-> -54],
      cos |-> [neg |-> FALSE, m |-> <<19627, 20656, 23019, 221>>, e |-> -53]],
     \* 0.5890486225480862
     [angle |-> [neg |-> FALSE, m |-> <<8658, 32358, 26097, 150>>, e |-> -53],
      sin |-> [neg |-> FALSE, m |-> <<26824, 29532, 7404, 142>>, e |-> -53],
      cos |-> [neg |-> FALSE, m |-> <<8611, 21021, 28056, 212>>, e |-> -53]],
     \* 0.6544984694978735
     [angle |-> [neg |-> FALSE, m |-> <<20542, 3185, 18075, 167>>, e |-> -53],
      sin |-> [neg |-> FALSE, m |-> <<5097, 32554, 27620, 155>>, e |-> -53],
      cos |-> [neg |-> FALSE, m |-> <<9362, 5806, 3226, 203>>, e |-> -53]],
     \* 0.7199483164476609
     [angle |-> [neg |-> FALSE, m |-> <<32427, 6780, 10052, 184>>, e |-> -53],
      sin |-> [neg |-> FALSE, m |-> <<32524, 18982, 25969, 168>>, e |-> -53],
      cos |-> [neg |-> FALSE, m |-> <<40, 13885, 15433, 192>>, e |-> -53]],
     \* 0.7853981633974483
     [angle |-> [neg |-> FALSE, m |-> <<11544, 10376, 2029, 201>>, e |-> -53],
      sin |-> [neg |-> FALSE, m |-> <<15308, 19710, 633, 181>>, e |-> -53],
      cos |-> [neg |-> FALSE, m |-> <<15309, 19710, 633, 181>>, e |-> -53]],
     \* 0.8508480103472356
     [angle |-> [neg |-> FALSE, m |-> <<23428, 13971, 26774, 217>>, e |-> -53],
      sin |-> [neg |-> FALSE, m |-> <<39, 13885, 15433, 192>>, e |-> -53],
      cos |-> [neg |-> FALSE, m |-> <<32525, 18982, 25969, 168>>, e |-> -53]],
     \* 0.916297857297023
     [angle |-> [neg |-> FALSE, m |-> <<2545, 17567, 18751, 234>>, e |-> -53],
      sin |-> [neg |-> FALSE, m |-> <<9362, 5806, 3226, 203>>, e |-> -53],
      cos |-> [neg |-> FALSE, m |-> <<5098, 32554, 27620, 155>>, e |-> -53]],
     \* 0.9817477042468103
     [angle |-> [neg |-> FALSE, m |-> <<14430, 21162, 10728, 251>>, e |-> -53],
      sin |-> [neg |-> FALSE, m |-> <<8611, 21021, 28056, 212>>, e |-> -53],
      cos |-> [neg |-> FALSE, m |-> <<26825, 29532, 7404, 142>>, e |-> -53]],
     \* 1.0471975511965976
     [angle |-> [neg |-> FALSE, m |-> <<29541, 28762, 1352, 134>>, e |-> -52],
      sin |-> [neg |-> FALSE, m |-> <<19626, 20656, 23019, 221>>, e |-> -53],
      cos |-> [neg |-> FALSE, m |-> <<1, 0, 0, 128>>, e |-> -53]],
     \* 1.112647398146385
     [angle |-> [neg |-> FALSE, m |-> <<19099, 14176, 13725, 142>>, e |-> -52],
      sin |-> [neg |-> FALSE, m |-> <<20724, 28003, 19641, 229>>, e |-> -53],
      cos |-> [neg |-> FALSE, m |-> <<26367, 29168, 14804, 226>>, e |-> -54]],
     \* 1.1780972450961724
     [angle |-> [neg |-> FALSE, m |-> <<8658, 32358, 26097, 150>>, e |-> -52],
      sin |-> [neg |-> FALSE, m |-> <<3398, 7781, 16815, 236>>, e |-> -53],
      cos |-> [neg |-> FALSE, m |-> <<10596, 19805, 30602, 195>>, e |-> -54]],
     \* 1.2435470920459597
     [angle |-> [neg |-> FALSE, m |-> <<30984, 17771, 5702, 159>>, e |-> -52],
      sin |-> [neg |-> FALSE, m |-> <<27050, 21617, 13569, 242>>, e |-> -53],
      cos |-> [neg |-> FALSE, m |-> <<15178, 11151, 18907, 164>>, e |-> -54]],
     \* 1.308996938995747
     [angle |-> [neg |-> FALSE, m |-> <<20542, 3185, 18075, 167>>, e |-> -52],
      sin |-> [neg |-> FALSE, m |-> <<16148, 3729, 9077, 247>>, e |-> -53],
      cos |-> [neg |-> FALSE, m |-> <<1684, 806, 16887, 132>>, e |-> -54]],
     \* 1.3744467859455345
     [angle |-> [neg |-> FALSE, m |-> <<10101, 21367, 30447, 175>>, e |-> -52],
      sin |-> [neg |-> FALSE, m |-> <<23728, 8174, 2655, 251>>, e |-> -53],
      cos |-> [neg |-> FALSE, m |-> <<9741, 30931, 25312, 199>>, e |-> -55]],
     \* 1.4398966328953218
     [angle |-> [neg |-> FALSE, m |-> <<32427, 6780, 10052, 184>>, e |-> -52],
      sin |-> [neg |-> FALSE, m |-> <<26779, 9688, 26538, 253>>, e |-> -53],
      cos |-> [neg |-> FALSE, m |-> <<8917, 7899, 21588, 133>>, e |-> -55]],
     \* 1.5053464798451093
     [angle |-> [neg |-> FALSE, m |-> <<21986, 24962, 22424, 192>>, e |-> -52],
      sin |-> [neg |-> FALSE, m |-> <<7238, 11349, 14807, 255>>, e |-> -53],
      cos |-> [neg |-> FALSE, m |-> <<31370, 23090, 30985, 133>>, e |-> -56]],
     \* 1.5707963267948966
     [angle |-> [neg |-> FALSE, m |-> <<11544, 10376, 2029, 201>>, e |-> -52],
      sin |-> [neg |-> FALSE, m |-> <<0, 0, 0, 128>>, e |-> -52],
      cos |-> [neg |-> FALSE, m |-> <<23559, 26152, 6296, 141>>, e |-> -106]],
     \* 1.6362461737446838
     [angle |-> [neg |-> FALSE, m |-> <<1102, 28558, 14401, 209>>, e |-> -52],
      sin |-> [neg |-> FALSE, m |-> <<7238, 11349, 14807, 255>>, e |-> -53],
      cos |-> [neg |-> TRUE, m |-> <<31361, 23090, 30985, 133>>, e |-> -56]],
     \* 1.7016960206944711
     [angle |-> [neg |-> FALSE, m |-> <<23428, 13971, 26774, 217>>, e |-> -52],
      sin |-> [neg |-> FALSE, m |-> <<26780, 9688, 26538, 253>>, e |-> -53],
      cos |-> [neg |-> TRUE, m |-> <<8905, 7899, 21588, 133>>, e |-> -55]],
     \* 1.7671458676442586
     [angle |-> [neg |-> FALSE, m |-> <<12987, 32153, 6378, 226>>, e |-> -52],
      sin |-> [neg |-> FALSE, m |-> <<23728, 8174, 2655, 251>>, e |-> -53],
      cos |-> [neg |-> TRUE, m |-> <<9736, 30931, 25312, 199>>, e |-> -55]],
     \* 1.832595714594046
     [angle |-> [neg |-> FALSE, m |-> <<2545, 17567, 18751, 234>>, e |-> -52],
      sin |-> [neg |-> FALSE, m |-> <<16149, 3729, 9077, 247>>, e |-> -53],
      cos |-> [neg |-> TRUE, m |-> <<1678, 806, 16887, 132>>, e |-> -54]],
     \* 1.8980455615438332
     [angle |-> [neg |-> FALSE, m |-> <<24871, 2980, 31124, 242>>, e |-> -52],
      sin |-> [neg |-> FALSE, m |-> <<27051, 21617, 13569, 242>>, e |-> -53],
      cos |-> [neg |-> TRUE, m |-> <<15172, 11151, 18907, 164>>, e |-> -54]],
     \* 1.9634954084936207
     [angle |-> [neg |-> FALSE, m |-> <<14430, 21162, 10728, 251>>, e |-> -52],
      sin |-> [neg |-> FALSE, m |-> <<3398, 7781, 16815, 236>>, e |-> -53],
      cos |-> [neg |-> TRUE, m |-> <<10594, 19805, 30602, 195>>, e |-> -54]],
     \* 2.028945255443408
     [angle |-> [neg |-> FALSE, m |-> <<1994, 19672, 27934, 129>>, e |-> -51],
      sin |-> [neg |-> FALSE, m |-> <<20725, 28003, 19641, 229>>, e |-> -53],
      cos |-> [neg |-> TRUE, m |-> <<26361, 29168, 14804, 226>>, e |-> -54]],
     \* 2.0943951023931953
     [angle |-> [neg |-> FALSE, m |-> <<29541, 28762, 1352, 134>>, e |-> -51],
      sin |-> [neg |-> FALSE, m |-> <<19627, 20656, 23019, 221>>, e |-> -53],
      cos |-> [neg |-> TRUE, m |-> <<32764, 32767, 32767, 255>>, e |-> -54]],
     \* 2.1598449493429825
     [angle |-> [neg |-> FALSE, m |-> <<24320, 5085, 7539, 138>>, e |-> -51],
      sin |-> [neg |-> FALSE, m |-> <<8612, 21021, 28056, 212>>, e |-> -53],
      cos |-> [neg |-> TRUE, m |-> <<26822, 29532, 7404, 142>>, e |-> -53]],
     \* 2.22529479629277
     [angle |-> [neg |-> FALSE, m |-> <<19099, 14176, 13725, 142>>, e |-> -51],
      sin |-> [neg |-> FALSE, m |-> <<9364, 5806, 3226, 203>>, e |-> -53],
      cos |-> [neg |-> TRUE, m |-> <<5095, 32554, 27620, 155>>, e |-> -53]],
     \* 2.290744643242557
     [angle |-> [neg |-> FALSE, m |-> <<13878, 23267, 19911, 146>>, e |-> -51],
      sin |-> [neg |-> FALSE, m |-> <<43, 13885, 15433, 192>>, e |-> -53],
      cos |-> [neg |-> TRUE, m |-> <<32521, 18982, 25969, 168>>, e |-> -53]],
     \* 2.356194490192345
     [angle |-> [neg |-> FALSE, m |-> <<8658, 32358, 26097, 150>>, e |-> -51],
      sin |-> [neg |-> FALSE, m |-> <<15309, 19710, 633, 181>>, e |-> -53],
      cos |-> [neg |-> TRUE, m |-> <<15308, 19710, 633, 181>>, e |-> -53]],
     \* 2.421644337142132
     [angle |-> [neg |-> FALSE, m |-> <<3437, 8681, 32284, 154>>, e |-> -51],
      sin |-> [neg |-> FALSE, m |-> <<32525, 18982, 25969, 168>>, e |-> -53],
      cos |-> [neg |-> TRUE, m |-> <<39, 13885, 15433, 192>>, e |-> -53]],
     \* 2.4870941840919194
     [angle |-> [neg |-> FALSE, m |-> <<30984, 17771, 5702, 159>>, e |-> -51],
      sin |-> [neg |-> FALSE, m |-> <<5100, 32554, 27620, 155>>, e |-> -53],
      cos |-> [neg |-> TRUE, m |-> <<9361, 5806, 3226, 203>>, e |-> -53]],
     \* 2.5525440310417067
     [angle |-> [neg |-> FALSE, m |-> <<25763, 26862, 11888, 163>>, e |-> -51],
      sin |-> [neg |-> FALSE, m |-> <<26827, 29532, 7404, 142>>, e |-> -53],
      cos |-> [neg |-> TRUE, m |-> <<8609, 21021, 28056, 212>>, e |-> -53]],
     \* 2.617993877991494
     [angle |-> [neg |-> FALSE, m |-> <<20542, 3185, 18075, 167>>, e |-> -51],
      sin |-> [neg |-> FALSE, m |-> <<3, 0, 0, 128>>, e |-> -53],
      cos |-> [neg |-> TRUE, m |-> <<19625, 20656, 23019, 221>>, e |-> -53]],
     \* 2.6834437249412812
     [angle |-> [neg |-> FALSE, m |-> <<15321, 12276, 24261, 171>>, e |-> -51],
      sin |-> [neg |-> FALSE, m |-> <<26371, 29168, 14804, 226>>, e |-> -54],
      cos |-> [neg |-> TRUE, m |-> <<20723, 28003, 19641, 229>>, e |-> -53]],
     \* 2.7488935718910685
     [angle |-> [neg |-> FALSE, m |-> <<10100, 21367, 30447, 175>>, e |-> -51],
      sin |-> [neg |-> FALSE, m |-> <<10604, 19805, 30602, 195>>, e |-> -54],
      cos |-> [neg |-> TRUE, m |-> <<3396, 7781, 16815, 236>>, e |-> -53]],
     \* 2.8143434188408563
     [angle |-> [neg |-> FALSE, m |-> <<4880, 30458, 3865, 180>>, e |-> -51],
      sin |-> [neg |-> FALSE, m |-> <<15179, 11151, 18907, 164>>, e |-> -54],
      cos |-> [neg |-> TRUE, m |-> <<27050, 21617, 13569, 242>>, e |-> -53]],
     \* 2.8797932657906435
     [angle |-> [neg |-> FALSE, m |-> <<32427, 6780, 10052, 184>>, e |-> -51],
      sin |-> [neg |-> FALSE, m |-> <<1685, 806, 16887, 132>>, e |-> -54],
      cos |-> [neg |-> TRUE, m |-> <<16148, 3729, 9077, 247>>, e |-> -53]],
     \* 2.945243112740431
     [angle |-> [neg |-> FALSE, m |-> <<27206, 15871, 16238, 188>>, e |-> -51],
      sin |-> [neg |-> FALSE, m |-> <<9751, 30931, 25312, 199>>, e |-> -55],
      cos |-> [neg |-> TRUE, m |-> <<23728, 8174, 2655, 251>>, e |-> -53]],
     \* 3.0106929596902186
     [angle |-> [neg |-> FALSE, m |-> <<21986, 24962, 22424, 192>>, e |-> -51],
      sin |-> [neg |-> FALSE, m |-> <<8912, 7899, 21588, 133>>, e |-> -55],
      cos |-> [neg |-> TRUE, m |-> <<26779, 9688, 26538, 253>>, e |-> -53]],
     \* 3.076142806640006
     [angle |-> [neg |-> FALSE, m |-> <<16765, 1285, 28611, 196>>, e |-> -51],
      sin |-> [neg |-> FALSE, m |-> <<31375, 23090, 30985, 133>>, e |-> -56],
      cos |-> [neg |-> TRUE, m |-> <<7238, 11349, 14807, 255>>, e |-> -53]],
     \* 3.141592653589793
     [angle |-> [neg |-> FALSE, m |-> <<11544, 10376, 2029, 201>>, e |-> -51],
      sin |-> [neg |-> FALSE, m |-> <<23559, 26152, 6296, 141>>, e |-> -105],
      cos |-> [neg |-> TRUE, m |-> <<0, 0, 0, 128>>, e |-> -52]],
     \* 3.2070425005395804
     [angle |-> [neg |-> FALSE, m |-> <<6323, 19467, 8215, 205>>, e |-> -51],
      sin |-> [neg |-> TRUE, m |-> <<31357, 23090, 30985, 133>>, e |-> -56],
      cos |-> [neg |-> TRUE, m |-> <<7238, 11349, 14807, 255>>, e |-> -53]],
     \* 3.2724923474893677
     [angle |-> [neg |-> FALSE, m |-> <<1102, 28558, 14401, 209>>, e |-> -51],
      sin |-> [neg |-> TRUE, m |-> <<8903, 7899, 21588, 133>>, e |-> -55],
      cos |-> [neg |-> TRUE, m |-> <<26780, 9688, 26538, 253>>, e |-> -53]],
     \* 3.337942194439155
     [angle |-> [neg |-> FALSE, m |-> <<28649, 4880, 20588, 213>>, e |-> -51],
      sin |-> [neg |-> TRUE, m |-> <<9726, 30931, 25312, 199>>, e |-> -55],
      cos |-> [neg |-> TRUE, m |-> <<23729, 8174, 2655, 251>>, e |-> -53]],
     \* 3.4033920413889422
     [angle |-> [neg |-> FALSE, m |-> <<23428, 13971, 26774, 217>>, e |-> -51],
      sin |-> [neg |-> TRUE, m |-> <<1673, 806, 16887, 132>>, e |-> -54],
      cos |-> [neg |-> TRUE, m |-> <<16150, 3729, 9077, 247>>, e |-> -53]],
     \* 3.46884188833873
     [angle |-> [neg |-> FALSE, m |-> <<18208, 23062, 192, 222>>, e |-> -51],
      sin |-> [neg |-> TRUE, m |-> <<15175, 11151, 18907, 164>>, e |-> -54],
      cos |-> [neg |-> TRUE, m |-> <<27051, 21617, 13569, 242>>, e |-> -53]],
     \* 3.5342917352885173
     [angle |-> [neg |-> FALSE, m |-> <<12987, 32153, 6378, 226>>, e |-> -51],
      sin |-> [neg |-> TRUE, m |-> <<10593, 19805, 30602, 195>>, e |-> -54],
      cos |-> [neg |-> TRUE, m |-> <<3399, 7781, 16815, 236>>, e |-> -53]],
     \* 3.5997415822383045
     [angle |-> [neg |-> FALSE, m |-> <<7766, 8476, 12565, 230>>, e |-> -51],
      sin |-> [neg |-> TRUE, m |-> <<26360, 29168, 14804, 226>>, e |-> -54],
      cos |-> [neg |-> TRUE, m |-> <<20725, 28003, 19641, 229>>, e |-> -53]],
     \* 3.665191429188092
     [angle |-> [neg |-> FALSE, m |-> <<2545, 17567, 18751, 234>>, e |-> -51],
      sin |-> [neg |-> TRUE, m |-> <<32763, 32767, 32767, 255>>, e |-> -54],
      cos |-> [neg |-> TRUE, m |-> <<19628, 20656, 23019, 221>>, e |-> -53]],
     \* 3.730641276137879
     [angle |-> [neg |-> FALSE, m |-> <<30092, 26657, 24937, 238>>, e |-> -51],
      sin |-> [neg |-> TRUE, m |-> <<26822, 29532, 7404, 142>>, e |-> -53],
      cos |-> [neg |-> TRUE, m |-> <<8613, 21021, 28056, 212>>, e |-> -53]],
     \* 3.7960911230876664
     [angle |-> [neg |-> FALSE, m |-> <<24871, 2980, 31124, 242>>, e |-> -51],
      sin |-> [neg |-> TRUE, m |-> <<5095, 32554, 27620, 155>>, e |-> -53],
      cos |-> [neg |-> TRUE, m |-> <<9364, 5806, 3226, 203>>, e |-> -53]],
     \* 3.8615409700374537
     [angle |-> [neg |-> FALSE, m |-> <<19650, 12071, 4542, 247>>, e |-> -51],
      sin |-> [neg |-> TRUE, m |-> <<32521, 18982, 25969, 168>>, e |-> -53],
      cos |-> [neg |-> TRUE, m |-> <<43, 13885, 15433, 192>>, e |-> -53]],
     \* 3.9269908169872414
     [angle |-> [neg |-> FALSE, m |-> <<14430, 21162, 10728, 251>>, e |-> -51],
      sin |-> [neg |-> TRUE, m |-> <<15308, 19710, 633, 181>>, e |-> -53],
      cos |-> [neg |-> TRUE, m |-> <<15310, 19710, 633, 181>>, e |-> -53]],
     \* 3.9924406639370287
     [angle |-> [neg |-> FALSE, m |-> <<9209, 30253, 16914, 255>>, e |-> -51],
      sin |-> [neg |-> TRUE, m |-> <<39, 13885, 15433, 192>>, e |-> -53],
      cos |-> [neg |-> TRUE, m |-> <<32526, 18982, 25969, 168>>, e |-> -53]],
     \* 4.057890510886816
     [angle |-> [neg |-> FALSE, m |-> <<1994, 19672, 27934, 129>>, e |-> -50],
      sin |-> [neg |-> TRUE, m |-> <<9360, 5806, 3226, 203>>, e |-> -53],
      cos |-> [neg |-> TRUE, m |-> <<5100, 32554, 27620, 155>>, e |-> -53]],
     \* 4.123340357836603
     [angle |-> [neg |-> FALSE, m |-> <<15767, 24217, 31027, 131>>, e |-> -50],
      sin |-> [neg |-> TRUE, m |-> <<8607, 21021, 28056, 212>>, e |-> -53],
      cos |-> [neg |-> TRUE, m |-> <<26831, 29532, 7404, 142>>, e |-> -53]],
     \* 4.1887902047863905
     [angle |-> [neg |-> FALSE, m |-> <<29541, 28762, 1352, 134>>, e |-> -50],
      sin |-> [neg |-> TRUE, m |-> <<19625, 20656, 23019, 221>>, e |-> -53],
      cos |-> [neg |-> TRUE, m |-> <<4, 0, 0, 128>>, e |-> -53]],
     \* 4.254240051736178
     [angle |-> [neg |-> FALSE, m |-> <<10547, 540, 4446, 136>>, e |-> -50],
      sin |-> [neg |-> TRUE, m |-> <<20724, 28003, 19641, 229>>, e |-> -53],
      cos |-> [neg |-> TRUE, m |-> <<26365, 29168, 14804, 226>>, e |-> -54]],
     \* 4.319689898685965
     [angle |-> [neg |-> FALSE, m |-> <<24320, 5085, 7539, 138>>, e |-> -50],
      sin |-> [neg |-> TRUE, m |-> <<3396, 7781, 16815, 236>>, e |-> -53],
      cos |-> [neg |-> TRUE, m |-> <<10605, 19805, 30602, 195>>, e |-> -54]],
     \* 4.385139745635753
     [angle |-> [neg |-> FALSE, m |-> <<5326, 9631, 10632, 140>>, e |-> -50],
      sin |-> [neg |-> TRUE, m |-> <<27050, 21617, 13569, 242>>, e |-> -53],
      cos |-> [neg |-> TRUE, m |-> <<15180, 11151, 18907, 164>>, e |-> -54]],
     \* 4.4505895925855405
     [angle |-> [neg |-> FALSE, m |-> <<19100, 14176, 13725, 142>>, e |-> -50],
      sin |-> [neg |-> TRUE, m |-> <<16149, 3729, 9077, 247>>, e |-> -53],
      cos |-> [neg |-> TRUE, m |-> <<1678, 806, 16887, 132>>, e |-> -54]],
     \* 4.516039439535327
     [angle |-> [neg |-> FALSE, m |-> <<105, 18722, 16818, 144>>, e |-> -50],
      sin |-> [neg |-> TRUE, m |-> <<23727, 8174, 2655, 251>>, e |-> -53],
      cos |-> [neg |-> TRUE, m |-> <<9753, 30931, 25312, 199>>, e |-> -55]],
     \* 4.581489286485115
     [angle |-> [neg |-> FALSE, m |-> <<13879, 23267, 19911, 146>>, e |-> -50],
      sin |-> [neg |-> TRUE, m |-> <<26779, 9688, 26538, 253>>, e |-> -53],
      cos |-> [neg |-> TRUE, m |-> <<8914, 7899, 21588, 133>>, e |-> -55]],
     \* 4.646939133434902
     [angle |-> [neg |-> FALSE, m |-> <<27652, 27812, 23004, 148>>, e |-> -50],
      sin |-> [neg |-> TRUE, m |-> <<7238, 11349, 14807, 255>>, e |-> -53],
      cos |-> [neg |-> TRUE, m |-> <<31411, 23090, 30985, 133>>, e |-> -56]],
     \* 4.71238898038469
     [angle |-> [neg |-> FALSE, m |-> <<8658, 32358, 26097, 150>>, e |-> -50],
      sin |-> [neg |-> TRUE, m |-> <<0, 0, 0, 128>>, e |-> -52],
      cos |-> [neg |-> TRUE, m |-> <<2570, 6461, 25829, 211>>, e |-> -105]],
     \* 4.777838827334477
     [angle |-> [neg |-> FALSE, m |-> <<22432, 4135, 29191, 152>>, e |-> -50],
      sin |-> [neg |-> TRUE, m |-> <<7238, 11349, 14807, 255>>, e |-> -53],
      cos |-> [neg |-> FALSE, m |-> <<31385, 23090, 30985, 133>>, e |-> -56]],
     \* 4.843288674284264
     [angle |-> [neg |-> FALSE, m |-> <<3437, 8681, 32284, 154>>, e |-> -50],
      sin |-> [neg |-> TRUE, m |-> <<26780, 9688, 26538, 253>>, e |-> -53],
      cos |-> [neg |-> FALSE, m |-> <<8901, 7899, 21588, 133>>, e |-> -55]],
     \* 4.908738521234051
     [angle |-> [neg |-> FALSE, m |-> <<17210, 13226, 2609, 157>>, e |-> -50],
      sin |-> [neg |-> TRUE, m |-> <<23730, 8174, 2655, 251>>, e |-> -53],
      cos |-> [neg |-> FALSE, m |-> <<9708, 30931, 25312, 199>>, e |-> -55]],
     \* 4.974188368183839
     [angle |-> [neg |-> FALSE, m |-> <<30984, 17771, 5702, 159>>, e |-> -50],
      sin |-> [neg |-> TRUE, m |-> <<16150, 3729, 9077, 247>>, e |-> -53],
      cos |-> [neg |-> FALSE, m |-> <<1672, 806, 16887, 132>>, e |-> -54]],
     \* 5.0396382151336265
     [angle |-> [neg |-> FALSE, m |-> <<11990, 22317, 8795, 161>>, e |-> -50],
      sin |-> [neg |-> TRUE, m |-> <<27051, 21617, 13569, 242>>, e |-> -53],
      cos |-> [neg |-> FALSE, m |-> <<15174, 11151, 18907, 164>>, e |-> -54]],
     \* 5.105088062083413
     [angle |-> [neg |-> FALSE, m |-> <<25763, 26862, 11888, 163>>, e |-> -50],
      sin |-> [neg |-> TRUE, m |-> <<3400, 7781, 16815, 236>>, e |-> -53],
      cos |-> [neg |-> FALSE, m |-> <<10584, 19805, 30602, 195>>, e |-> -54]],
     \* 5.1705379090332
     [angle |-> [neg |-> FALSE, m |-> <<6768, 31408, 14981, 165>>, e |-> -50],
      sin |-> [neg |-> TRUE, m |-> <<20729, 28003, 19641, 229>>, e |-> -53],
      cos |-> [neg |-> FALSE, m |-> <<26345, 29168, 14804, 226>>, e |-> -54]],
     \* 5.235987755982988
     [angle |-> [neg |-> FALSE, m |-> <<20542, 3185, 18075, 167>>, e |-> -50],
      sin |-> [neg |-> TRUE, m |-> <<19630, 20656, 23019, 221>>, e |-> -53],
      cos |-> [neg |-> FALSE, m |-> <<32756, 32767, 32767, 255>>, e |-> -54]],
     \* 5.301437602932776
     [angle |-> [neg |-> FALSE, m |-> <<1548, 7731, 21168, 169>>, e |-> -50],
      sin |-> [neg |-> TRUE, m |-> <<8613, 21021, 28056, 212>>, e |-> -53],
      cos |-> [neg |-> FALSE, m |-> <<26821, 29532, 7404, 142>>, e |-> -53]],
     \* 5.3668874498825625
     [angle |-> [neg |-> FALSE, m |-> <<15321, 12276, 24261, 171>>, e |-> -50],
      sin |-> [neg |-> TRUE, m |-> <<9367, 5806, 3226, 203>>, e |-> -53],
      cos |-> [neg |-> FALSE, m |-> <<5091, 32554, 27620, 155>>, e |-> -53]],
     \* 5.43233729683235
     [angle |-> [neg |-> FALSE, m |-> <<29095, 16821, 27354, 173>>, e |-> -50],
      sin |-> [neg |-> TRUE, m |-> <<43, 13885, 15433, 192>>, e |-> -53],
      cos |-> [neg |-> FALSE, m |-> <<32520, 18982, 25969, 168>>, e |-> -53]],
     \* 5.497787143782137
     [angle |-> [neg |-> FALSE, m |-> <<10100, 21367, 30447, 175>>, e |-> -50],
      sin |-> [neg |-> TRUE, m |-> <<15316, 19710, 633, 181>>, e |-> -53],
      cos |-> [neg |-> FALSE, m |-> <<15302, 19710, 633, 181>>, e |-> -53]],
     \* 5.563236990731925
     [angle |-> [neg |-> FALSE, m |-> <<23874, 25912, 772, 178>>, e |-> -50],
      sin |-> [neg |-> TRUE, m |-> <<32529, 18982, 25969, 168>>, e |-> -53],
      cos |-> [neg |-> FALSE, m |-> <<36, 13885, 15433, 192>>, e |-> -53]],
     \* 5.6286868376817125
     [angle |-> [neg |-> FALSE, m |-> <<4880, 30458, 3865, 180>>, e |-> -50],
      sin |-> [neg |-> TRUE, m |-> <<5100, 32554, 27620, 155>>, e |-> -53],
      cos |-> [neg |-> FALSE, m |-> <<9360, 5806, 3226, 203>>, e |-> -53]],
     \* 5.694136684631499
     [angle |-> [neg |-> FALSE, m |-> <<18653, 2235, 6959, 182>>, e |-> -50],
      sin |-> [neg |-> TRUE, m |-> <<26831, 29532, 7404, 142>>, e |-> -53],
      cos |-> [neg |-> FALSE, m |-> <<8606, 21021, 28056, 212>>, e |-> -53]],
     \* 5.759586531581287
     [angle |-> [neg |-> FALSE, m |-> <<32427, 6780, 10052, 184>>, e |-> -50],
      sin |-> [neg |-> TRUE, m |-> <<4, 0, 0, 128>>, e |-> -53],
      cos |-> [neg |-> FALSE, m |-> <<19624, 20656, 23019, 221>>, e |-> -53]],
     \* 5.825036378531075
     [angle |-> [neg |-> FALSE, m |-> <<13433, 11326, 13145, 186>>, e |-> -50],
      sin |-> [neg |-> TRUE, m |-> <<26366, 29168, 14804, 226>>, e |-> -54],
      cos |-> [neg |-> FALSE, m |-> <<20724, 28003, 19641, 229>>, e |-> -53]],
     \* 5.890486225480862
     [angle |-> [neg |-> FALSE, m |-> <<27206, 15871, 16238, 188>>, e |-> -50],
      sin |-> [neg |-> TRUE, m |-> <<10606, 19805, 30602, 195>>, e |-> -54],
      cos |-> [neg |-> FALSE, m |-> <<3396, 7781, 16815, 236>>, e |-> -53]],
     \* 5.955936072430649
     [angle |-> [neg |-> FALSE, m |-> <<8212, 20417, 19331, 190>>, e |-> -50],
      sin |-> [neg |-> TRUE, m |-> <<15181, 11151, 18907, 164>>, e |-> -54],
      cos |-> [neg |-> FALSE, m |-> <<27050, 21617, 13569, 242>>, e |-> -53]],
     \* 6.021385919380437
     [angle |-> [neg |-> FALSE, m |-> <<21986, 24962, 22424, 192>>, e |-> -50],
      sin |-> [neg |-> TRUE, m |-> <<1679, 806, 16887, 132>>, e |-> -54],
      cos |-> [neg |-> FALSE, m |-> <<16149, 3729, 9077, 247>>, e |-> -53]],
     \* 6.086835766330224
     [angle |-> [neg |-> FALSE, m |-> <<2991, 29508, 25517, 194>>, e |-> -50],
      sin |-> [neg |-> TRUE, m |-> <<9755, 30931, 25312, 199>>, e |-> -55],
      cos |-> [neg |-> FALSE, m |-> <<23727, 8174, 2655, 251>>, e |-> -53]],
     \* 6.152285613280012
     [angle |-> [neg |-> FALSE, m |-> <<16765, 1285, 28611, 196>>, e |-> -50],
      sin |-> [neg |-> TRUE, m |-> <<8916, 7899, 21588, 133>>, e |-> -55],
      cos |-> [neg |-> FALSE, m |-> <<26779, 9688, 26538, 253>>, e |-> -53]],
     \* 6.2177354602297985
     [angle |-> [neg |-> FALSE, m |-> <<30538, 5830, 31704, 198>>, e |-> -50],
      sin |-> [neg |-> TRUE, m |-> <<31415, 23090, 30985, 133>>, e |-> -56],
      cos |-> [neg |-> FALSE, m |-> <<7238, 11349, 14807, 255>>, e |-> -53]],
     \* 6.283185307179586
     [angle |-> [neg |-> FALSE, m |-> <<11544, 10376, 2029, 201>>, e |-> -50],
      sin |-> [neg |-> TRUE, m |-> <<23559, 26152, 6296, 141>>, e |-> -104],
      cos |-> [neg |-> FALSE, m |-> <<0, 0, 0, 128>>, e |-> -52]]}

LibmTable ==
    {\* 0.6544984694978735
     [angle |-> [neg |-> FALSE, m |-> <<20542, 3185, 18075, 167>>, e |-> -53],
      sin |-> [neg |-> FALSE, m |-> <<5097, 32554, 27620, 155>>, e |-> -53],
      cos |-> [neg |-> FALSE, m |-> <<9363, 5806, 3226, 203>>, e |-> -53]],
     \* 2.1598449493429825
     [angle |-> [neg |-> FALSE, m |-> <<24320, 5085, 7539, 138>>, e |-> -51],
      sin |-> [neg |-> FALSE, m |-> <<8613, 21021, 28056, 212>>, e |-> -53],
      cos |-> [neg |-> TRUE, m |-> <<26822, 29532, 7404, 142>>, e |-> -53]],
     \* 4.1887902047863905
     [angle |-> [neg |-> FALSE, m |-> <<29541, 28762, 1352, 134>>, e |-> -50],
      sin |-> [neg |-> TRUE, m |-> <<19624, 20656, 23019, 221>>, e |-> -53],
      cos |-> [neg |-> TRUE, m |-> <<4, 0, 0, 128>>, e |-> -53]],
     \* 5.43233729683235
     [angle |-> [neg |-> FALSE, m |-> <<29095, 16821, 27354, 173>>, e |-> -50],
      sin |-> [neg |-> TRUE, m |-> <<44, 13885, 15433, 192>>, e |-> -53],
      cos |-> [neg |-> FALSE, m |-> <<32520, 18982, 25969, 168>>, e |-> -53]],
     \* 5.694136684631499
     [angle |-> [neg |-> FALSE, m |-> <<18653, 2235, 6959, 182>>, e |-> -50],
      sin |-> [neg |-> TRUE, m |-> <<26831, 29532, 7404, 142>>, e |-> -53],
      cos |-> [neg |-> FALSE, m |-> <<8607, 21021, 28056, 212>>, e |-> -53]]}

\* the trigonometry a build of the JavaScript engine may have
Runtimes == {"fdlibm", "libm"}

\* the row of an angle in the runtime rt
ArcRow(rt, a) ==
    IF rt = "libm" /\ \E row \in LibmTable : row.angle = a
    THEN CHOOSE row \in LibmTable : row.angle = a
    ELSE CHOOSE row \in ArcTable : row.angle = a

\* Math.sin(a) and Math.cos(a) in the runtime rt for an angle of ArcTable
SinOn(rt, a) == ArcRow(rt, a).sin
CosOn(rt, a) == ArcRow(rt, a).cos

createBall(x, y, radius) == [x |-> x, y |-> y, vx |-> FZero, vy |-> FZero, radius |-> radius]

\* ball.vx += gx * dt; ball.vy += gy * dt
Pulled(b, dt, mazeAngle) ==
    [b EXCEPT !.vx = FAdd(@, FMul(FMul(GRAVITY, Sin(mazeAngle)), dt)),
              !.vy = FAdd(@, FMul(FMul(GRAVITY, Cos(mazeAngle)), dt))]

Scaled(b, scale) == [b EXCEPT !.vx = FMul(@, scale), !.vy = FMul(@, scale)]

\* Math.sqrt(ball.vx * ball.vx + ball.vy * ball.vy)
Speed(b) == FSqrt(FAdd(FMul(b.vx, b.vx), FMul(b.vy, b.vy)))

\* if (speed > MAX_SPEED) { const scale = MAX_SPEED / speed; ... }
CappedAt(b, speed) ==
    IF FGreater(speed, MAX_SPEED) THEN Scaled(b, FDiv(MAX_SPEED, speed)) ELSE b

\* ball.x += ball.vx * dt; ball.y += ball.vy * dt
Moved(b, dt) ==
    [b EXCEPT !.x = FAdd(@, FMul(b.vx, dt)), !.y = FAdd(@, FMul(b.vy, dt))]

Slowed(b, dt) == Moved(CappedAt(Scaled(b, FRICTION), Speed(Scaled(b, FRICTION))), dt)

\* the ball after integrateBall(ball, dt, mazeAngle)
integrateBall(b, dt, mazeAngle) == Slowed(Pulled(b, dt, mazeAngle), dt)

\* resetBall(ball, x, y)
resetBall(b, x, y) == [b EXCEPT !.x = x, !.y = y, !.vx = FZero, !.vy = FZero]

\* integrateBall calls of one behaviour
MaxSteps == 2

\* velocities before the first call: at rest, slow, and far above MAX_SPEED
\* along an axis and across
Velocities ==
    {<<FZero, FZero>>, <<FromInt(100), FromInt(-50)>>, <<FromInt(1000), FZero>>,
     <<FZero, FromInt(900)>>, <<FromInt(900), FromInt(900)>>,
     <<FromInt(-3000), FromInt(-1000)>>, <<FromInt(3000), FromInt(4000)>>}

\* time steps: none, the fixed step, and a tenth of a second
Steps == {FZero, FIXED_DT, FromRatio(1, 10)}

BallInit ==
    /\ mode = "ball"
    /\ pc = 0
    /\ MazeIdle
    /\ profile = NoProfile
    /\ lastMetrics = NoMetrics
    /\ instances = <<>>
    /\ drawn = <<>>
    /\ timeState = NoTime
    /\ alpha = -1
    /\ ticked = -1
    /\ \E v \in Velocities :
         ball = [createBall(FZero, FZero, FromInt(8)) EXCEPT !.vx = v[1], !.vy = v[2]]
    /\ walls = <<>>
    /\ contact = <<>>
    /\ \E a \in Angles : game = [status |-> "none", mazeAngle |-> a]
    /\ tracker = NoTracker
    /\ input = NoInput

\* integrateBall(ball, dt, mazeAngle); pc counts the calls
IntegrateBall ==
    /\ mode = "ball"
    /\ pc < MaxSteps
    /\ \E dt \in Steps : ball' = integrateBall(ball, dt, game.mazeAngle)
    /\ pc' = pc + 1
    /\ UNCHANGED <<mode, profile, mazeVars, lastMetrics, instances, drawn, timeState,
                   alpha, ticked, walls, contact, game, tracker, input>>

BallNext == IntegrateBall

SpecBall == BallInit /\ [][BallNext]_vars

\* C17: after every integrateBall call, whatever the time step, the maze angle
\* and the velocity before the call, the speed sqrt(vx^2 + vy^2) of the ball is
\* at most MAX_SPEED.
C17_SpeedCapped ==
    (mode = "ball" /\ pc > 0) => FLeq(Speed(ball), MAX_SPEED)


---------------------------------------------------------------------------
(* engine/collision.ts: circle against segment *)

\* the literal 1e-10
TINY == [neg |-> FALSE, m |-> <<15803, 13231, 29567, 219>>, e |-> -86]

\* const NO_HIT
NO_HIT == [hit |-> FALSE, normal |-> [x |-> FZero, y |-> FZero], penetration |-> FZero]

\* a test that lets a ball touching the wall (dist = radius) count as a hit
HitTouching(b, distX, distY, dist) ==
    IF FGreater(dist, b.radius) \/ FLess(dist, TINY) THEN NO_HIT
    ELSE [hit |-> TRUE,
          normal |-> [x |-> FDiv(distX, dist), y |-> FDiv(distY, dist)],
          penetration |-> FSub(b.radius, dist)]

\* if (dist >= ball.radius || dist < 1e-10) return NO_HIT, else the hit
Hit(b, distX, distY, dist) ==
    IF FGeq(dist, b.radius) \/ FLess(dist, TINY) THEN NO_HIT
    ELSE [hit |-> TRUE,
          normal |-> [x |-> FDiv(distX, dist), y |-> FDiv(distY, dist)],
          penetration |-> FSub(b.radius, dist)]

\* dist = Math.sqrt(distX * distX + distY * distY)
HitAt(b, distX, distY) ==
    Hit(b, distX, distY, FSqrt(FAdd(FMul(distX, distX), FMul(distY, distY))))

\* closest point (cx, cy): distX = ball.x - cx, distY = ball.y - cy
FromClosest(b, cx, cy) == HitAt(b, FSub(b.x, cx), FSub(b.y, cy))

\* cx = seg.x1 + t * dx, cy = seg.y1 + t * dy
Projected(b, seg, dx, dy, t) ==
    FromClosest(b, FAdd(seg.x1, FMul(t, dx)), FAdd(seg.y1, FMul(t, dy)))

\* the degenerate segment, else t = Math.max(0, Math.min(1, ... / lenSq))
Along(b, seg, dx, dy, lenSq) ==
    IF FLess(lenSq, TINY) THEN NO_HIT
    ELSE Projected(b, seg, dx, dy,
                   FMax(FZero,
                        FMin(FromInt(1),
                             FDiv(FAdd(FMul(FSub(b.x, seg.x1), dx),
                                       FMul(FSub(b.y, seg.y1), dy)), lenSq))))

Spanned(b, seg, dx, dy) == Along(b, seg, dx, dy, FAdd(FMul(dx, dx), FMul(dy, dy)))

\* circleVsSegment(ball, seg)
circleVsSegment(b, seg) == Spanned(b, seg, FSub(seg.x2, seg.x1), FSub(seg.y2, seg.y1))

Segment(x1, y1, x2, y2) ==
    [x1 |-> FromInt(x1), y1 |-> FromInt(y1), x2 |-> FromInt(x2), y2 |-> FromInt(y2)]

\* segments with whole-number ends: along an axis, slanted with whole and with
\* irrational length, and of length zero
Segments ==
    {Segment(0, 0, 10, 0), Segment(0, -4, 0, 6), Segment(0, 0, 6, 8),
     Segment(-3, 1, 4, 2), Segment(10, 0, 0, 0), Segment(3, 3, 3, 3)}

\* ball centres with whole-number coordinates and the radii 8 and 10
Centres ==
    {<<5, 3>>, <<5, 8>>, <<5, 0>>, <<13, 4>>, <<-6, -8>>, <<-5, 10>>, <<3, 3>>,
     <<0, 0>>, <<16, 0>>, <<-4, 5>>, <<7, -7>>, <<2, 9>>, <<-4, 3>>}

CollideInit ==
    /\ mode = "collide"
    /\ pc = "test"
    /\ MazeIdle
    /\ profile = NoProfile
    /\ lastMetrics = NoMetrics
    /\ instances = <<>>
    /\ drawn = <<>>
    /\ timeState = NoTime
    /\ alpha = -1
    /\ ticked = -1
    /\ \E c \in Centres, radius \in {8, 10} :
         ball = createBall(FromInt(c[1]), FromInt(c[2]), FromInt(radius))
    /\ \E seg \in Segments : walls = <<seg>>
    /\ contact = <<>>
    /\ game = NoGame
    /\ tracker = NoTracker
    /\ input = NoInput

\* circleVsSegment(ball, walls[1])
CircleVsSegment ==
    /\ mode = "collide" /\ pc = "test"
    /\ contact' = <<circleVsSegment(ball, walls[1])>>
    /\ pc' = "tested"
    /\ UNCHANGED <<mode, profile, mazeVars, lastMetrics, instances, drawn, timeState,
                   alpha, ticked, ball, walls, game, tracker, input>>


\* the whole number a number holds
IntOf(x) ==
    IF IsZero(x) THEN 0
    ELSE (IF x.neg THEN -1 ELSE 1)
         * BVal(IF x.e <= 0 THEN BShr(x.m, -x.e) ELSE BShl(x.m, x.e))

\* Exact geometry in whole numbers.  With A and B the ends of the segment, P
\* the centre, len = |AB|^2 and dot = AP . AB, the closest point is A for
\* dot <= 0, B for dot >= len, and the foot of the perpendicular otherwise;
\* Gap is len * (P - closest point) and Dist2 is len^2 * d^2.
Dot(px, py, ax, ay, bx, by) == (px - ax) * (bx - ax) + (py - ay) * (by - ay)
Len2(ax, ay, bx, by) == (bx - ax) * (bx - ax) + (by - ay) * (by - ay)

GapX(px, ax, bx, len, dot) ==
    IF dot <= 0 THEN len * (px - ax)
    ELSE IF dot >= len THEN len * (px - bx)
    ELSE len * (px - ax) - dot * (bx - ax)

ExactGap(px, py, ax, ay, bx, by) ==
    [x |-> GapX(px, ax, bx, Len2(ax, ay, bx, by), Dot(px, py, ax, ay, bx, by)),
     y |-> GapX(py, ay, by, Len2(ax, ay, bx, by), Dot(px, py, ax, ay, bx, by)),
     len |-> Len2(ax, ay, bx, by)]

\* 0 < d < radius
InsideOpen(gap, radius) ==
    /\ gap.len > 0
    /\ gap.x * gap.x + gap.y * gap.y > 0
    /\ gap.x * gap.x + gap.y * gap.y < radius * radius * gap.len * gap.len

GapOf(b, seg) ==
    ExactGap(IntOf(b.x), IntOf(b.y), IntOf(seg.x1), IntOf(seg.y1),
             IntOf(seg.x2), IntOf(seg.y2))

FSign(x) == IF IsZero(x) THEN 0 ELSE IF x.neg THEN -1 ELSE 1

\* d is the whole number k: len^2 * d^2 = (len * k)^2
DistIs(gap, k) == gap.x * gap.x + gap.y * gap.y = gap.len * gap.len * k * k

\* the result res agrees with the exact gap
Agrees(res, gap, radius) ==
    /\ res.hit <=> InsideOpen(gap, radius)
    /\ res.hit =>
         /\ FSign(res.normal.x) = Sign(gap.x)
         /\ FSign(res.normal.y) = Sign(gap.y)
         /\ FGreater(res.penetration, FZero)
         /\ \A k \in 1 .. radius : DistIs(gap, k) => res.penetration = FromInt(radius - k)
    /\ ~res.hit => res = NO_HIT

\* C18: circleVsSegment reports a hit exactly when the segment has positive
\* length and the distance d from the ball centre to the closest point of the
\* segment satisfies 0 < d < radius; then the normal points from the closest
\* point to the centre and the penetration is radius - d.  With d = radius,
\* d = 0 or a segment of length zero the result is NO_HIT.
C18_HitIffInside ==
    (mode = "collide" /\ pc = "tested") =>
        Agrees(contact[1], GapOf(ball, walls[1]), IntOf(ball.radius))

\* C18 witness: the ball of radius 8 centred at (-4, 3) has been tested against
\* the slanted segment (0,0)-(6,8); its closest point is the end (0,0), at
\* distance 5, and the hit has penetration 3
C18_Witness ==
    /\ mode = "collide" /\ pc = "tested"
    /\ walls[1] = Segment(0, 0, 6, 8)
    /\ IntOf(ball.x) = -4 /\ IntOf(ball.y) = 3 /\ IntOf(ball.radius) = 8
    /\ contact[1].hit
    /\ contact[1].penetration = FromInt(3)

---------------------------------------------------------------------------
(* engine/physics.ts and engine/collision.ts: bouncing off the walls *)

\* ball.x += normal.x * penetration; ball.y += normal.y * penetration
Pushed(b, normal, penetration) ==
    [b EXCEPT !.x = FAdd(@, FMul(normal.x, penetration)),
              !.y = FAdd(@, FMul(normal.y, penetration))]

\* if (dot < 0) { ball.vx -= (1 + RESTITUTION) * dot * normal.x; ... }
Reflected(b, normal, dot) ==
    IF FLess(dot, FZero)
    THEN [b EXCEPT
            !.vx = FSub(@, FMul(FMul(FAdd(FromInt(1), RESTITUTION), dot), normal.x)),
            !.vy = FSub(@, FMul(FMul(FAdd(FromInt(1), RESTITUTION), dot), normal.y))]
    ELSE b

\* the ball after bounceBall(ball, normal, penetration)
bounceBall(b, normal, penetration) ==
    Reflected(Pushed(b, normal, penetration), normal,
              FAdd(FMul(b.vx, normal.x), FMul(b.vy, normal.y)))

\* the loop body: if (result.hit) { bounceFn(...); collisionCount++; }
Tested(st, result) ==
    [ball |-> IF result.hit
              THEN bounceBall(st.ball, result.normal, result.penetration)
              ELSE st.ball,
     collisionCount |-> st.collisionCount + (IF result.hit THEN 1 ELSE 0),
     results |-> Append(st.results, result)]

\* the element of a set of one element; The({F(v) : v \in {e}}) is F(e) with e
\* evaluated once
The(S) == CHOOSE v \in S : TRUE

\* for (const seg of segments): the segments lo .. hi are tested in order, each
\* against the ball as the earlier hits left it.  The range is halved, first
\* half first, so that the evaluation nests no deeper than the logarithm of
\* the number of segments.
RECURSIVE ResolveFrom(_, _, _, _)
ResolveFrom(segments, lo, hi, st) ==
    IF lo > hi THEN st
    ELSE IF lo = hi
    THEN The({Tested(st, result) : result \in {circleVsSegment(st.ball, segments[lo])}})
    ELSE The({ResolveFrom(segments, (lo + hi) \div 2 + 1, hi, half) :
                half \in {ResolveFrom(segments, lo, (lo + hi) \div 2, st)}})

\* resolveCollisions(ball, segments, bounceBall): the ball afterwards, the
\* returned count and the result of every circleVsSegment call
resolveCollisions(b, segments) ==
    ResolveFrom(segments, 1, Len(segments),
                [ball |-> b, collisionCount |-> 0, results |-> <<>>])

\* resolveCollisions(ball, segments, bounceBall) with the segment just tested
\* and a second one as the segments
ResolveCollisions ==
    /\ mode = "collide" /\ pc = "tested"
    /\ \E seg \in Segments :
       \E res \in {resolveCollisions(ball, <<walls[1], seg>>)} :
         /\ walls' = <<walls[1], seg>>
         /\ ball' = res.ball
         /\ contact' = res.results
    /\ pc' = "resolved"
    /\ UNCHANGED <<mode, profile, mazeVars, lastMetrics, instances, drawn, timeState,
                   alpha, ticked, game, tracker, input>>

CollideNext == CircleVsSegment \/ ResolveCollisions

SpecCollide == CollideInit /\ [][CollideNext]_vars

\* segments.push({x1: cx + r * Math.cos(a1), y1: cy + r * Math.sin(a1),
\*                x2: cx + r * Math.cos(a2), y2: cy + r * Math.sin(a2)})
ArcSegment(rt, cx, cy, r, a1, a2) ==
    [x1 |-> FAdd(cx, FMul(r, CosOn(rt, a1))), y1 |-> FAdd(cy, FMul(r, SinOn(rt, a1))),
     x2 |-> FAdd(cx, FMul(r, CosOn(rt, a2))), y2 |-> FAdd(cy, FMul(r, SinOn(rt, a2)))]

\* for (let i = 0; i < numSegments; i++) with a1 = theta1 + i * dTheta and
\* a2 = theta1 + (i + 1) * dTheta
ArcSegments(rt, cx, cy, r, theta1, dTheta, numSegments) ==
    [k \in 1 .. numSegments |->
        ArcSegment(rt, cx, cy, r, FAdd(theta1, FMul(FromInt(k - 1), dTheta)),
                   FAdd(theta1, FMul(FromInt(k), dTheta)))]

\* tessellateArc(cx, cy, r, theta1, theta2, numSegments) in the runtime rt
tessellateArc(rt, cx, cy, r, theta1, theta2, numSegments) ==
    ArcSegments(rt, cx, cy, r, theta1, FDiv(FSub(theta2, theta1), FromInt(numSegments)),
                numSegments)

---------------------------------------------------------------------------
(* adapt/metrics.ts: the metrics of one attempt *)

IDLE_THRESHOLD == FromInt(5)                  \* const IDLE_THRESHOLD = 5
OUTER_RISK_FRACTION == FromRatio(85, 100)     \* const OUTER_RISK_FRACTION = 0.85

\* Math.sqrt(ball.x * ball.x + ball.y * ball.y)
Dist(b) == FSqrt(FAdd(FMul(b.x, b.x), FMul(b.y, b.y)))

\* Math.atan2(y, x) is tabulated on the axes, where its value is exact.  Off the
\* axes the model places the point in one of the twelve sectors of 30 degrees
\* by exact arithmetic; when the direction is within 2^-40 (relative) of a
\* sector boundary, the sector on either side is a possible outcome, since the
\* last digit of Math.atan2 and of the boundary k * sliceAngle is not modelled.

\* floor(sqrt(3) * 2^45 * (1 - 2^-40)) and ceil(sqrt(3) * 2^45 * (1 + 2^-40))
ROOT3_LOW  == <<12385, 27553, 23987, 1>>
ROOT3_HIGH == <<12497, 27553, 23987, 1>>

OnAxis(x, y) == IsZero(x) \/ IsZero(y)

\* Math.atan2(y, x), then theta += 2 * Math.PI if theta < 0, on an axis
ThetaOnAxis(x, y) ==
    IF IsZero(y) THEN (IF x.neg /\ ~IsZero(x) THEN PI ELSE FZero)
    ELSE IF y.neg THEN FAdd(FNeg(Ldexp(PI, -1)), FMul(FromInt(2), PI))
    ELSE Ldexp(PI, -1)

\* |v| as a whole number of units 2^e0
Units(v, e0) == BShl(v.m, v.e - e0)

\* the sector 0, 1 or 2 of a direction of the first quadrant given by whole
\* numbers X, Y > 0 that are within 2^41 of each other; lo and hi say that the
\* direction may as well lie in the sector below or above
ThirdOf(X, Y) ==
    IF BCmp(BMul(Y, ROOT3_HIGH), BShl(X, 45)) < 0
    THEN [q |-> 0, lo |-> FALSE, hi |-> FALSE]
    ELSE IF BCmp(BMul(Y, ROOT3_LOW), BShl(X, 45)) <= 0
    THEN [q |-> 0, lo |-> FALSE, hi |-> TRUE]
    ELSE IF BCmp(BShl(Y, 45), BMul(X, ROOT3_LOW)) < 0
    THEN [q |-> 1, lo |-> FALSE, hi |-> FALSE]
    ELSE IF BCmp(BShl(Y, 45), BMul(X, ROOT3_HIGH)) <= 0
    THEN [q |-> 1, lo |-> FALSE, hi |-> TRUE]
    ELSE [q |-> 2, lo |-> FALSE, hi |-> FALSE]

\* the same for |x|, |y| of any size, neither of them zero
Third(ax, ay) ==
    IF FLess(Ldexp(ay, 40), ax) THEN [q |-> 0, lo |-> TRUE, hi |-> FALSE]
    ELSE IF FLess(Ldexp(ax, 40), ay) THEN [q |-> 2, lo |-> FALSE, hi |-> TRUE]
    ELSE ThirdOf(Units(ax, Min(ax.e, ay.e)), Units(ay, Min(ax.e, ay.e)))

\* the sector 0 .. 11 of the direction (x, y), counted from the positive x axis
\* towards the positive y axis
InQuadrant(x, y, t) ==
    IF ~x.neg /\ ~y.neg THEN [s |-> t.q, lo |-> t.lo, hi |-> t.hi]
    ELSE IF x.neg /\ ~y.neg THEN [s |-> 5 - t.q, lo |-> t.hi, hi |-> t.lo]
    ELSE IF x.neg /\ y.neg THEN [s |-> 6 + t.q, lo |-> t.lo, hi |-> t.hi]
    ELSE [s |-> 11 - t.q, lo |-> t.hi, hi |-> t.lo]

Sector(x, y) == InQuadrant(x, y, Third(FAbs(x), FAbs(y)))

\* the possible values of floor(theta / sa), before % slices, off the axes; a
\* small positive theta has the floor 0
Floors(sec) ==
    {sec.s} \cup (IF sec.lo /\ sec.s > 0 THEN {sec.s - 1} ELSE {})
            \cup (IF sec.hi THEN {sec.s + 1} ELSE {})

\* the possible values of Math.floor(theta / sa) % slices for twelve slices
SliceOutcomes(x, y, slices) ==
    IF OnAxis(x, y)
    THEN {FFloor(FDiv(ThetaOnAxis(x, y), sliceAngle(slices))) % slices}
    ELSE {(f + slices) % slices : f \in Floors(Sector(x, y))}

\* createMetricsTracker(config); startTime is never read and is left out
createMetricsTracker(cfg) ==
    [tickCount |-> 0, totalSpeed |-> FZero, idleTicks |-> 0, nearOuterTicks |-> 0,
     collisions |-> 0, dirChanges |-> 0, visitedCells |-> {}, config |-> cfg,
     totalTime |-> FZero]

\* tickCount++, totalTime += dt, totalSpeed += speed, idleTicks
Timed(tr, dt, speed) ==
    [tr EXCEPT !.tickCount = @ + 1,
               !.totalTime = FAdd(@, dt),
               !.totalSpeed = FAdd(@, speed),
               !.idleTicks = IF FLess(speed, IDLE_THRESHOLD) THEN @ + 1 ELSE @]

\* if (dist > outerR * OUTER_RISK_FRACTION) tracker.nearOuterTicks++
Risked(tr, dist) ==
    [tr EXCEPT !.nearOuterTicks =
        IF FGreater(dist, FMul(ringOuterRadius(tr.config, tr.config.rings - 1),
                               OUTER_RISK_FRACTION))
        THEN @ + 1 ELSE @]

\* if (ring >= 0 && ring < rings) visitedCells.add(`${ring},${slice}`)
VisitedAt(tr, ring, slice) ==
    IF ring >= 0 /\ ring < tr.config.rings
    THEN [tr EXCEPT !.visitedCells = @ \cup {<<ring, slice>>}]
    ELSE tr

\* ring = Math.floor((dist - innerRadius) / ringWidth)
Visited(tr, dist, slice) ==
    VisitedAt(tr, FFloor(FDiv(FSub(dist, tr.config.innerRadius), ringWidth(tr.config))),
              slice)

\* the tracker after recordTick(tracker, ball, mazeAngle, dt), given the slice
recordTick(tr, b, dt, slice) ==
    Visited(Risked(Timed(tr, dt, Speed(b)), Dist(b)), Dist(b), slice)

recordCollision(tr) == [tr EXCEPT !.collisions = @ + 1]

recordDirectionChange(tr) == [tr EXCEPT !.dirChanges = @ + 1]

\* snapshotMetrics(tracker); ticks = Math.max(tracker.tickCount, 1)
SnapshotOver(tr, ticks) ==
    [totalTime |-> tr.totalTime,
     avgSpeed |-> FDiv(tr.totalSpeed, FromInt(ticks)),
     idleRatio |-> FDiv(FromInt(tr.idleTicks), FromInt(ticks)),
     riskRatio |-> FDiv(FromInt(tr.nearOuterTicks), FromInt(ticks)),
     collisionCount |-> FromInt(tr.collisions),
     directionChanges |-> FromInt(tr.dirChanges),
     exploration |-> FDiv(FromInt(Cardinality(tr.visitedCells)),
                          FromInt(tr.config.rings * tr.config.slices)),
     won |-> FALSE]

snapshotMetrics(tr) == SnapshotOver(tr, Max(tr.tickCount, 1))

---------------------------------------------------------------------------
(* maze/renderer.ts: the collision segments of the wall-on / wall-off model *)

ARC_SEGMENTS == 8

\* isExitSlice(slice, exit, slices)
isExitSlice(slice, ex, slices) ==
    \E i \in 0 .. ex.sliceCount - 1 : slice = (ex.sliceStart + i) % slices

\* the arc of slice s at radius r: tessellateArc(0, 0, r, theta0, theta1, ARC_SEGMENTS)
SliceArc(rt, r, s, sa) ==
    tessellateArc(rt, FromInt(0), FromInt(0), r, FMul(FromInt(s), sa),
                  FMul(FromInt(s + 1), sa), ARC_SEGMENTS)

\* if (cell.wallInner) the inner arc wall
InnerArc(rt, m, r, s, sa) ==
    IF m.cells[r][s].wallInner THEN SliceArc(rt, ringInnerRadius(m.config, r), s, sa)
    ELSE <<>>

\* if (cell.wallOuter) the outer arc wall, unless the cell is at the exit
OuterArc(rt, m, r, s, sa) ==
    IF m.cells[r][s].wallOuter
       /\ ~(r = m.config.rings - 1 /\ isExitSlice(s, m.exit, m.config.slices))
    THEN SliceArc(rt, ringOuterRadius(m.config, r), s, sa)
    ELSE <<>>

\* the radial segment from rInner to rOuter at the angle theta1
RadialSegment(rt, rInner, rOuter, theta1) ==
    [x1 |-> FMul(rInner, CosOn(rt, theta1)), y1 |-> FMul(rInner, SinOn(rt, theta1)),
     x2 |-> FMul(rOuter, CosOn(rt, theta1)), y2 |-> FMul(rOuter, SinOn(rt, theta1))]

\* if (cell.wallCW) the CW radial wall, unless it lies inside the exit
RadialWall(rt, m, r, s, sa) ==
    IF m.cells[r][s].wallCW
       /\ ~(/\ r = m.config.rings - 1
            /\ isExitSlice(s, m.exit, m.config.slices)
            /\ isExitSlice((s + 1) % m.config.slices, m.exit, m.config.slices))
    THEN <<RadialSegment(rt, ringInnerRadius(m.config, r), ringOuterRadius(m.config, r),
                         FMul(FromInt(s + 1), sa))>>
    ELSE <<>>

\* the body of the two loops for the cell (r, s)
CellWalls(rt, m, r, s, sa) ==
    InnerArc(rt, m, r, s, sa) \o OuterArc(rt, m, r, s, sa) \o RadialWall(rt, m, r, s, sa)

\* for (let s = 0; s < slices; s++): the walls of the cells 0 .. s of ring r
RECURSIVE RingWalls(_, _, _, _, _)
RingWalls(rt, m, r, s, sa) ==
    IF s < 0 THEN <<>> ELSE RingWalls(rt, m, r, s - 1, sa) \o CellWalls(rt, m, r, s, sa)

\* for (let r = 0; r < rings; r++): the walls of the rings 0 .. r
RECURSIVE WallsFrom(_, _, _, _)
WallsFrom(rt, m, r, sa) ==
    IF r < 0 THEN <<>>
    ELSE WallsFrom(rt, m, r - 1, sa) \o RingWalls(rt, m, r, m.config.slices - 1, sa)

\* the outer boundary of slice s, unless s is an exit slice
BoundaryArc(rt, m, s, sa) ==
    IF ~isExitSlice(s, m.exit, m.config.slices)
    THEN SliceArc(rt, ringOuterRadius(m.config, m.config.rings - 1), s, sa)
    ELSE <<>>

RECURSIVE BoundaryFrom(_, _, _, _)
BoundaryFrom(rt, m, sa, s) ==
    IF s < 0 THEN <<>> ELSE BoundaryFrom(rt, m, sa, s - 1) \o BoundaryArc(rt, m, s, sa)

\* buildCollisionSegments(maze) in the runtime rt
buildCollisionSegments(rt, m) ==
    WallsFrom(rt, m, m.config.rings - 1, sliceAngle(m.config.slices))
    \o BoundaryFrom(rt, m, sliceAngle(m.config.slices), m.config.slices - 1)

---------------------------------------------------------------------------
(* main.ts: the game.  A step is one call of a handler: a key listener or   *)
(* gameLoop(now), which polls the reset after a win and runs, through       *)
(* updateTime, every physics tick of the frame.  The window has no height   *)
(* (Canvas), so createMaze builds a config with outerRadius 0 <             *)
(* innerRadius: generateMaze returns the fallback maze of 7 rings and 12    *)
(* slices, buildCollisionSegments its 1312 segments, whose rings lie inside *)
(* one another around the ball, and the collisions push the ball out        *)
(* through the exit sector in the second tick of an attempt.                *)

BALL_RADIUS == 8
INNER_RADIUS == 50
WIN_MARGIN == 15
MAZE_RINGS == 7
MAZE_SLICES == 12

\* the canvas: a window of no height
Canvas == [width |-> 640, height |-> 0]

\* computeMazeRadius() = Math.min(canvas.width, canvas.height) * 0.38
computeMazeRadius == FMul(FromInt(Min(Canvas.width, Canvas.height)), FromRatio(38, 100))

\* computeAttemptSeed(baseSeed, attemptIndex)
computeAttemptSeed(baseSeed, attemptIndex) == baseSeed + attemptIndex

\* const config: MazeConfig = { rings: MAZE_RINGS, ..., ballRadius: BALL_RADIUS }
MazeConfig(baseSeed, attemptIndex) ==
    [rings |-> MAZE_RINGS, slices |-> MAZE_SLICES,
     seed |-> computeAttemptSeed(baseSeed, attemptIndex),
     innerRadius |-> FromInt(INNER_RADIUS),
     outerRadius |-> computeMazeRadius,
     ballRadius |-> FromInt(BALL_RADIUS)]

\* createMaze(baseSeed, attemptIndex, params) in the runtime rt:
\* { maze: generateMaze(config, params), segments: buildCollisionSegments(maze) }
createMaze(rt, baseSeed, attemptIndex, p) ==
    [maze |-> generateMaze(MazeConfig(baseSeed, attemptIndex), p),
     segments |-> buildCollisionSegments(
                      rt, generateMaze(MazeConfig(baseSeed, attemptIndex), p))]

\* what buildCollisionSegments reads of a maze: the cells, the exit and the
\* rings, slices and radii of the config
Plan(m) == [cells |-> m.cells, exit |-> m.exit, config |-> [m.config EXCEPT !.seed = 0]]

\* the runtime in which the segments w of the maze m were built
RuntimeOf(w, m) == CHOOSE rt \in Runtimes : w = buildCollisionSegments(rt, m)

\* buildCollisionSegments(m) in the runtime of the running game, whose maze is
\* last and whose segments are w: a maze with the plan of the last one has the
\* segments of the last one
Rebuilt(m, last, w) ==
    [maze |-> m,
     segments |-> IF Plan(m) = Plan(last) THEN w
                  ELSE buildCollisionSegments(RuntimeOf(w, last), m)]

\* createMaze(baseSeed, attemptIndex, params) during the game
createMazeAgain(baseSeed, attemptIndex, p, last, w) ==
    Rebuilt(generateMaze(MazeConfig(baseSeed, attemptIndex), p), last, w)

\* theta >= exitStart && theta <= exitEnd, or with the wrap-around
\* theta >= exitStart || theta <= exitEnd - 2 * Math.PI
InExitOnAxis(theta, exitStart, exitEnd) ==
    IF FGreater(exitEnd, FMul(FromInt(2), PI))
    THEN FGeq(theta, exitStart) \/ FLeq(theta, FSub(exitEnd, FMul(FromInt(2), PI)))
    ELSE FGeq(theta, exitStart) /\ FLeq(theta, exitEnd)

\* the same off the axes, for theta with the floor f of theta / sa
InExitAt(f, ex, slices, wraps) ==
    IF wraps
    THEN f >= ex.sliceStart \/ f < ex.sliceStart + ex.sliceCount - slices
    ELSE f >= ex.sliceStart /\ f < ex.sliceStart + ex.sliceCount

InExit(x, y, ex, slices, sa) ==
    IF OnAxis(x, y)
    THEN {InExitOnAxis(ThetaOnAxis(x, y), FMul(FromInt(ex.sliceStart), sa),
                       FMul(FromInt(ex.sliceStart + ex.sliceCount), sa))}
    ELSE {InExitAt(f, ex, slices,
                   FGreater(FMul(FromInt(ex.sliceStart + ex.sliceCount), sa),
                            FMul(FromInt(2), PI))) : f \in Floors(Sector(x, y))}

\* the possible results of checkWin(state)
checkWin(b, cfg, ex) ==
    IF FLeq(Dist(b), FAdd(ringOuterRadius(cfg, cfg.rings - 1), FromInt(WIN_MARGIN)))
    THEN {FALSE}
    ELSE InExit(b.x, b.y, ex, cfg.slices, sliceAngle(cfg.slices))

\* a ball of the game, of radius BALL_RADIUS
Ball8(x, y, vx, vy) ==
    [x |-> x, y |-> y, vx |-> vx, vy |-> vy, radius |-> FromInt(BALL_RADIUS)]

\* what buildCollisionSegments reads of the maze generateMaze returns on the
\* canvas: the fallback maze, whatever the seed and the parameters
CanvasPlan == Plan(generateMaze(MazeConfig(0, 0), defaultGenerationParams))

\* the runtime of the segments w of a maze of that plan: the tenth segment, the
\* second of the inner arc of cell (0, 1), ends at 50 * cos(37.5 degrees), which
\* the two runtimes round differently
RuntimeAt(w, m) ==
    CHOOSE rt \in Runtimes :
        w[10] = SliceArc(rt, ringInnerRadius(m.config, 0), 1,
                         sliceAngle(m.config.slices))[2]

\* resolveCollisions(b, segments) on the segments of that plan, for the balls b
\* the first two ticks of an attempt pass to it while the player holds or
\* releases a key at each of them: the ball after the call and the indices of
\* the segments that were hit, in each runtime. Every row is the value of
\* resolveCollisions(row.b, buildCollisionSegments(row.rt, m)).
ResolveTable ==
    {\* fdlibm, tick 1, mazeAngle 0.0: 107 hits, ball at (6.008902371562121, 13.897867625829038)
     [rt |-> "fdlibm",
      b |-> Ball8(FZero,
               [neg |-> FALSE, m |-> <<7427, 8301, 3495, 168>>, e |-> -57],
               FZero,
               [neg |-> FALSE, m |-> <<13107, 26214, 19660, 157>>, e |-> -50]),
      ball |-> Ball8([neg |-> FALSE, m |-> <<23894, 26645, 9334, 192>>, e |-> -50],
                  [neg |-> FALSE, m |-> <<9553, 7268, 11989, 222>>, e |-> -49],
                  [neg |-> FALSE, m |-> <<892, 19211, 11753, 132>>, e |-> -50],
                  [neg |-> FALSE, m |-> <<28739, 3507, 542, 140>>, e |-> -53]),
      hits |-> {897, 898, 899, 900, 901, 902, 903, 904, 913, 914, 915, 916, 917,
                 918, 919, 920, 929, 930, 931, 932, 933, 934, 935, 936, 945, 946,
                 947, 948, 949, 950, 951, 952, 953, 954, 955, 956, 957, 958, 959,
                 960, 977, 978, 979, 980, 981, 982, 983, 984, 993, 994, 995, 996,
                 997, 998, 999, 1000, 1009, 1010, 1011, 1012, 1013, 1014, 1015,
                 1016, 1025, 1026, 1027, 1028, 1029, 1030, 1031, 1032, 1041, 1042,
                 1043, 1044, 1045, 1046, 1047, 1048, 1057, 1058, 1059, 1060, 1061,
                 1062, 1063, 1064, 1065, 1066, 1067, 1068, 1069, 1070, 1071, 1072,
                 1073, 1074, 1075, 1076, 1077, 1078, 1079, 1080, 1081, 1082, 1083}],
     \* fdlibm, tick 2, mazeAngle 0.0 after 0.0: 149 hits, ball at (13.235531054265373, 17.92301570053813)
     [rt |-> "fdlibm",
      b |-> Ball8([neg |-> FALSE, m |-> <<31753, 13713, 12167, 193>>, e |-> -50],
               [neg |-> FALSE, m |-> <<14608, 21187, 3092, 223>>, e |-> -49],
               [neg |-> FALSE, m |-> <<25618, 21052, 12232, 130>>, e |-> -50],
               [neg |-> FALSE, m |-> <<896, 31029, 27509, 174>>, e |-> -50]),
      ball |-> Ball8([neg |-> FALSE, m |-> <<1596, 3453, 25182, 211>>, e |-> -49],
                  [neg |-> FALSE, m |-> <<380, 911, 12587, 143>>, e |-> -48],
                  [neg |-> FALSE, m |-> <<8456, 21616, 30938, 197>>, e |-> -54],
                  [neg |-> FALSE, m |-> <<24199, 25896, 24299, 218>>, e |-> -51]),
      hits |-> {566, 567, 568, 569, 570, 571, 738, 739, 740, 741, 742, 743, 744,
                 749, 750, 751, 752, 753, 754, 755, 756, 757, 758, 759, 760, 761,
                 762, 763, 764, 765, 766, 767, 768, 769, 770, 771, 772, 773, 774,
                 775, 776, 777, 778, 779, 780, 781, 782, 783, 784, 786, 787, 788,
                 789, 790, 791, 792, 796, 797, 798, 799, 800, 801, 802, 803, 804,
                 805, 806, 807, 808, 812, 813, 814, 815, 816, 817, 818, 819, 820,
                 821, 822, 823, 824, 828, 829, 830, 831, 832, 833, 834, 835, 836,
                 837, 838, 839, 840, 844, 845, 846, 847, 848, 849, 850, 851, 852,
                 853, 854, 855, 856, 860, 861, 862, 863, 864, 865, 866, 867, 868,
                 869, 870, 871, 872, 876, 877, 878, 879, 880, 881, 882, 883, 884,
                 885, 886, 887, 888, 889, 890, 891, 892, 893, 894, 895, 896, 905,
                 906, 907, 908, 909, 910, 911}],
     \* fdlibm, tick 2, mazeAngle -0.020833333333333332 after 0.0: 149 hits, ball at (13.235531054230893, 17.923015700562836)
     [rt |-> "fdlibm",
      b |-> Ball8([neg |-> FALSE, m |-> <<25301, 29965, 11270, 193>>, e |-> -50],
               [neg |-> FALSE, m |-> <<18232, 32018, 3087, 223>>, e |-> -49],
               [neg |-> FALSE, m |-> <<10071, 10378, 5912, 254>>, e |-> -51],
               [neg |-> FALSE, m |-> <<18660, 9055, 26389, 174>>, e |-> -50]),
      ball |-> Ball8([neg |-> FALSE, m |-> <<14954, 3452, 25182, 211>>, e |-> -49],
                  [neg |-> FALSE, m |-> <<7334, 911, 12587, 143>>, e |-> -48],
                  [neg |-> FALSE, m |-> <<17858, 25611, 13577, 198>>, e |-> -54],
                  [neg |-> FALSE, m |-> <<26913, 22688, 8557, 219>>, e |-> -51]),
      hits |-> {566, 567, 568, 569, 570, 571, 738, 739, 740, 741, 742, 743, 744,
                 749, 750, 751, 752, 753, 754, 755, 756, 757, 758, 759, 760, 761,
                 762, 763, 764, 765, 766, 767, 768, 769, 770, 771, 772, 773, 774,
                 775, 776, 777, 778, 779, 780, 781, 782, 783, 784, 786, 787, 788,
                 789, 790, 791, 792, 796, 797, 798, 799, 800, 801, 802, 803, 804,
                 805, 806, 807, 808, 812, 813, 814, 815, 816, 817, 818, 819, 820,
                 821, 822, 823, 824, 828, 829, 830, 831, 832, 833, 834, 835, 836,
                 837, 838, 839, 840, 844, 845, 846, 847, 848, 849, 850, 851, 852,
                 853, 854, 855, 856, 860, 861, 862, 863, 864, 865, 866, 867, 868,
                 869, 870, 871, 872, 876, 877, 878, 879, 880, 881, 882, 883, 884,
                 885, 886, 887, 888, 889, 890, 891, 892, 893, 894, 895, 896, 905,
                 906, 907, 908, 909, 910, 911}],
     \* fdlibm, tick 2, mazeAngle 0.020833333333333332 after 0.0: 149 hits, ball at (13.235531054301537, 17.923015700512213)
     [rt |-> "fdlibm",
      b |-> Ball8([neg |-> FALSE, m |-> <<5437, 30230, 13063, 193>>, e |-> -50],
               [neg |-> FALSE, m |-> <<18232, 32018, 3087, 223>>, e |-> -49],
               [neg |-> FALSE, m |-> <<13433, 4148, 21509, 133>>, e |-> -50],
               [neg |-> FALSE, m |-> <<18660, 9055, 26389, 174>>, e |-> -50]),
      ball |-> Ball8([neg |-> FALSE, m |-> <<21955, 3453, 25182, 211>>, e |-> -49],
                  [neg |-> FALSE, m |-> <<25853, 910, 12587, 143>>, e |-> -48],
                  [neg |-> FALSE, m |-> <<25166, 5081, 12717, 197>>, e |-> -54],
                  [neg |-> FALSE, m |-> <<26744, 26437, 4163, 218>>, e |-> -51]),
      hits |-> {566, 567, 568, 569, 570, 571, 738, 739, 740, 741, 742, 743, 744,
                 749, 750, 751, 752, 753, 754, 755, 756, 757, 758, 759, 760, 761,
                 762, 763, 764, 765, 766, 767, 768, 769, 770, 771, 772, 773, 774,
                 775, 776, 777, 778, 779, 780, 781, 782, 783, 784, 786, 787, 788,
                 789, 790, 791, 792, 796, 797, 798, 799, 800, 801, 802, 803, 804,
                 805, 806, 807, 808, 812, 813, 814, 815, 816, 817, 818, 819, 820,
                 821, 822, 823, 824, 828, 829, 830, 831, 832, 833, 834, 835, 836,
                 837, 838, 839, 840, 844, 845, 846, 847, 848, 849, 850, 851, 852,
                 853, 854, 855, 856, 860, 861, 862, 863, 864, 865, 866, 867, 868,
                 869, 870, 871, 872, 876, 877, 878, 879, 880, 881, 882, 883, 884,
                 885, 886, 887, 888, 889, 890, 891, 892, 893, 894, 895, 896, 905,
                 906, 907, 908, 909, 910, 911}],
     \* fdlibm, tick 1, mazeAngle -0.020833333333333332: 106 hits, ball at (6.009194635319222, 13.89773645962982)
     [rt |-> "fdlibm",
      b |-> Ball8([neg |-> TRUE, m |-> <<483, 1613, 4129, 224>>, e |-> -63],
               [neg |-> FALSE, m |-> <<17637, 28553, 2299, 168>>, e |-> -57],
               [neg |-> TRUE, m |-> <<6597, 32232, 3870, 210>>, e |-> -56],
               [neg |-> FALSE, m |-> <<30871, 4240, 18540, 157>>, e |-> -50]),
      ball |-> Ball8([neg |-> FALSE, m |-> <<31380, 8975, 9641, 192>>, e |-> -50],
                  [neg |-> FALSE, m |-> <<4837, 14842, 11920, 222>>, e |-> -49],
                  [neg |-> FALSE, m |-> <<19753, 6122, 12088, 132>>, e |-> -50],
                  [neg |-> FALSE, m |-> <<3114, 7351, 136, 140>>, e |-> -53]),
      hits |-> {897, 898, 899, 900, 901, 902, 903, 904, 913, 914, 915, 916, 917,
                 918, 919, 920, 929, 930, 931, 932, 933, 934, 935, 936, 945, 946,
                 947, 948, 949, 950, 951, 952, 953, 954, 955, 956, 957, 958, 959,
                 960, 977, 978, 979, 980, 981, 982, 983, 984, 993, 994, 995, 996,
                 997, 998, 999, 1000, 1009, 1010, 1011, 1012, 1013, 1014, 1015,
                 1016, 1025, 1026, 1027, 1028, 1029, 1030, 1031, 1032, 1041, 1042,
                 1043, 1044, 1045, 1046, 1047, 1048, 1057, 1058, 1059, 1060, 1061,
                 1062, 1063, 1064, 1065, 1066, 1067, 1068, 1069, 1070, 1071, 1072,
                 1073, 1074, 1075, 1076, 1077, 1078, 1079, 1080, 1081, 1082}],
     \* fdlibm, tick 2, mazeAngle -0.020833333333333332 after -0.020833333333333332: 149 hits, ball at (13.235531054255508, 17.9230157005452)
     [rt |-> "fdlibm",
      b |-> Ball8([neg |-> FALSE, m |-> <<24241, 3989, 11580, 193>>, e |-> -50],
               [neg |-> FALSE, m |-> <<8306, 1, 3019, 223>>, e |-> -49],
               [neg |-> FALSE, m |-> <<23306, 15723, 6571, 254>>, e |-> -51],
               [neg |-> FALSE, m |-> <<13294, 9897, 26339, 174>>, e |-> -50]),
      ball |-> Ball8([neg |-> FALSE, m |-> <<28811, 3452, 25182, 211>>, e |-> -49],
                  [neg |-> FALSE, m |-> <<2370, 911, 12587, 143>>, e |-> -48],
                  [neg |-> FALSE, m |-> <<2140, 25410, 13290, 198>>, e |-> -54],
                  [neg |-> FALSE, m |-> <<15412, 17405, 8240, 219>>, e |-> -51]),
      hits |-> {566, 567, 568, 569, 570, 571, 738, 739, 740, 741, 742, 743, 744,
                 749, 750, 751, 752, 753, 754, 755, 756, 757, 758, 759, 760, 761,
                 762, 763, 764, 765, 766, 767, 768, 769, 770, 771, 772, 773, 774,
                 775, 776, 777, 778, 779, 780, 781, 782, 783, 784, 786, 787, 788,
                 789, 790, 791, 792, 796, 797, 798, 799, 800, 801, 802, 803, 804,
                 805, 806, 807, 808, 812, 813, 814, 815, 816, 817, 818, 819, 820,
                 821, 822, 823, 824, 828, 829, 830, 831, 832, 833, 834, 835, 836,
                 837, 838, 839, 840, 844, 845, 846, 847, 848, 849, 850, 851, 852,
                 853, 854, 855, 856, 860, 861, 862, 863, 864, 865, 866, 867, 868,
                 869, 870, 871, 872, 876, 877, 878, 879, 880, 881, 882, 883, 884,
                 885, 886, 887, 888, 889, 890, 891, 892, 893, 894, 895, 896, 905,
                 906, 907, 908, 909, 910, 911}],
     \* fdlibm, tick 2, mazeAngle -0.041666666666666664 after -0.020833333333333332: 149 hits, ball at (13.235531054222774, 17.923015700568655)
     [rt |-> "fdlibm",
      b |-> Ball8([neg |-> FALSE, m |-> <<11839, 223, 10684, 193>>, e |-> -50],
               [neg |-> FALSE, m |-> <<32537, 32560, 3004, 223>>, e |-> -49],
               [neg |-> FALSE, m |-> <<28865, 29296, 20879, 247>>, e |-> -51],
               [neg |-> FALSE, m |-> <<28885, 25450, 22977, 174>>, e |-> -50]),
      ball |-> Ball8([neg |-> FALSE, m |-> <<10383, 3452, 25182, 211>>, e |-> -49],
                  [neg |-> FALSE, m |-> <<8972, 911, 12587, 143>>, e |-> -48],
                  [neg |-> FALSE, m |-> <<26374, 30368, 25879, 198>>, e |-> -54],
                  [neg |-> FALSE, m |-> <<22305, 12680, 22152, 219>>, e |-> -51]),
      hits |-> {566, 567, 568, 569, 570, 571, 738, 739, 740, 741, 742, 743, 744,
                 749, 750, 751, 752, 753, 754, 755, 756, 757, 758, 759, 760, 761,
                 762, 763, 764, 765, 766, 767, 768, 769, 770, 771, 772, 773, 774,
                 775, 776, 777, 778, 779, 780, 781, 782, 783, 784, 786, 787, 788,
                 789, 790, 791, 792, 796, 797, 798, 799, 800, 801, 802, 803, 804,
                 805, 806, 807, 808, 812, 813, 814, 815, 816, 817, 818, 819, 820,
                 821, 822, 823, 824, 828, 829, 830, 831, 832, 833, 834, 835, 836,
                 837, 838, 839, 840, 844, 845, 846, 847, 848, 849, 850, 851, 852,
                 853, 854, 855, 856, 860, 861, 862, 863, 864, 865, 866, 867, 868,
                 869, 870, 871, 872, 876, 877, 878, 879, 880, 881, 882, 883, 884,
                 885, 886, 887, 888, 889, 890, 891, 892, 893, 894, 895, 896, 905,
                 906, 907, 908, 909, 910, 911}],
     \* fdlibm, tick 2, mazeAngle 0.0 after -0.020833333333333332: 149 hits, ball at (13.235531054289991, 17.923015700520487)
     [rt |-> "fdlibm",
      b |-> Ball8([neg |-> FALSE, m |-> <<30693, 20505, 12476, 193>>, e |-> -50],
               [neg |-> FALSE, m |-> <<4682, 21938, 3023, 223>>, e |-> -49],
               [neg |-> FALSE, m |-> <<15852, 7341, 12562, 130>>, e |-> -50],
               [neg |-> FALSE, m |-> <<28297, 31870, 27459, 174>>, e |-> -50]),
      ball |-> Ball8([neg |-> FALSE, m |-> <<15455, 3453, 25182, 211>>, e |-> -49],
                  [neg |-> FALSE, m |-> <<28182, 910, 12587, 143>>, e |-> -48],
                  [neg |-> FALSE, m |-> <<15792, 178, 30649, 197>>, e |-> -54],
                  [neg |-> FALSE, m |-> <<6587, 23028, 23979, 218>>, e |-> -51]),
      hits |-> {566, 567, 568, 569, 570, 571, 738, 739, 740, 741, 742, 743, 744,
                 749, 750, 751, 752, 753, 754, 755, 756, 757, 758, 759, 760, 761,
                 762, 763, 764, 765, 766, 767, 768, 769, 770, 771, 772, 773, 774,
                 775, 776, 777, 778, 779, 780, 781, 782, 783, 784, 786, 787, 788,
                 789, 790, 791, 792, 796, 797, 798, 799, 800, 801, 802, 803, 804,
                 805, 806, 807, 808, 812, 813, 814, 815, 816, 817, 818, 819, 820,
                 821, 822, 823, 824, 828, 829, 830, 831, 832, 833, 834, 835, 836,
                 837, 838, 839, 840, 844, 845, 846, 847, 848, 849, 850, 851, 852,
                 853, 854, 855, 856, 860, 861, 862, 863, 864, 865, 866, 867, 868,
                 869, 870, 871, 872, 876, 877, 878, 879, 880, 881, 882, 883, 884,
                 885, 886, 887, 888, 889, 890, 891, 892, 893, 894, 895, 896, 905,
                 906, 907, 908, 909, 910, 911}],
     \* fdlibm, tick 1, mazeAngle 0.020833333333333332: 106 hits, ball at (6.008337281189054, 13.898121195083547)
     [rt |-> "fdlibm",
      b |-> Ball8([neg |-> FALSE, m |-> <<483, 1613, 4129, 224>>, e |-> -63],
               [neg |-> FALSE, m |-> <<17637, 28553, 2299, 168>>, e |-> -57],
               [neg |-> FALSE, m |-> <<6597, 32232, 3870, 210>>, e |-> -56],
               [neg |-> FALSE, m |-> <<30871, 4240, 18540, 157>>, e |-> -50]),
      ball |-> Ball8([neg |-> FALSE, m |-> <<11677, 8944, 8742, 192>>, e |-> -50],
                  [neg |-> FALSE, m |-> <<29920, 5410, 12122, 222>>, e |-> -49],
                  [neg |-> FALSE, m |-> <<22081, 23630, 9523, 132>>, e |-> -50],
                  [neg |-> FALSE, m |-> <<13826, 14431, 32419, 139>>, e |-> -53]),
      hits |-> {897, 898, 899, 900, 901, 902, 903, 904, 913, 914, 915, 916, 917,
                 918, 919, 920, 929, 930, 931, 932, 933, 934, 935, 936, 945, 946,
                 947, 948, 949, 950, 951, 952, 953, 954, 955, 956, 957, 958, 959,
                 960, 977, 978, 979, 980, 981, 982, 983, 984, 993, 994, 995, 996,
                 997, 998, 999, 1000, 1009, 1010, 1011, 1012, 1013, 1014, 1015,
                 1016, 1025, 1026, 1027, 1028, 1029, 1030, 1031, 1032, 1041, 1042,
                 1043, 1044, 1045, 1046, 1047, 1048, 1057, 1058, 1059, 1060, 1061,
                 1062, 1063, 1064, 1065, 1066, 1067, 1068, 1069, 1070, 1071, 1072,
                 1073, 1074, 1075, 1076, 1077, 1078, 1079, 1080, 1081, 1082}],
     \* fdlibm, tick 2, mazeAngle 0.020833333333333332 after 0.020833333333333332: 149 hits, ball at (13.235531054253544, 17.923015700546607)
     [rt |-> "fdlibm",
      b |-> Ball8([neg |-> FALSE, m |-> <<15872, 2584, 12453, 193>>, e |-> -50],
               [neg |-> FALSE, m |-> <<15662, 15188, 3220, 223>>, e |-> -49],
               [neg |-> FALSE, m |-> <<11858, 23247, 19312, 133>>, e |-> -50],
               [neg |-> FALSE, m |-> <<18708, 20087, 26279, 174>>, e |-> -50]),
      ball |-> Ball8([neg |-> FALSE, m |-> <<27705, 3452, 25182, 211>>, e |-> -49],
                  [neg |-> FALSE, m |-> <<2766, 911, 12587, 143>>, e |-> -48],
                  [neg |-> FALSE, m |-> <<8954, 16837, 13267, 197>>, e |-> -54],
                  [neg |-> FALSE, m |-> <<12139, 32457, 4771, 218>>, e |-> -51]),
      hits |-> {566, 567, 568, 569, 570, 571, 738, 739, 740, 741, 742, 743, 744,
                 749, 750, 751, 752, 753, 754, 755, 756, 757, 758, 759, 760, 761,
                 762, 763, 764, 765, 766, 767, 768, 769, 770, 771, 772, 773, 774,
                 775, 776, 777, 778, 779, 780, 781, 782, 783, 784, 786, 787, 788,
                 789, 790, 791, 792, 796, 797, 798, 799, 800, 801, 802, 803, 804,
                 805, 806, 807, 808, 812, 813, 814, 815, 816, 817, 818, 819, 820,
                 821, 822, 823, 824, 828, 829, 830, 831, 832, 833, 834, 835, 836,
                 837, 838, 839, 840, 844, 845, 846, 847, 848, 849, 850, 851, 852,
                 853, 854, 855, 856, 860, 861, 862, 863, 864, 865, 866, 867, 868,
                 869, 870, 871, 872, 876, 877, 878, 879, 880, 881, 882, 883, 884,
                 885, 886, 887, 888, 889, 890, 891, 892, 893, 894, 895, 896, 905,
                 906, 907, 908, 909, 910, 911}],
     \* fdlibm, tick 2, mazeAngle 0.0 after 0.020833333333333332: 149 hits, ball at (13.235531054217395, 17.92301570057251)
     [rt |-> "fdlibm",
      b |-> Ball8([neg |-> FALSE, m |-> <<9420, 18836, 11556, 193>>, e |-> -50],
               [neg |-> FALSE, m |-> <<12038, 4357, 3225, 223>>, e |-> -49],
               [neg |-> FALSE, m |-> <<24043, 7383, 10036, 130>>, e |-> -50],
               [neg |-> FALSE, m |-> <<944, 9293, 27400, 174>>, e |-> -50]),
      ball |-> Ball8([neg |-> FALSE, m |-> <<7355, 3452, 25182, 211>>, e |-> -49],
                  [neg |-> FALSE, m |-> <<10057, 911, 12587, 143>>, e |-> -48],
                  [neg |-> FALSE, m |-> <<19662, 27987, 31483, 197>>, e |-> -54],
                  [neg |-> FALSE, m |-> <<9467, 8752, 24902, 218>>, e |-> -51]),
      hits |-> {566, 567, 568, 569, 570, 571, 738, 739, 740, 741, 742, 743, 744,
                 749, 750, 751, 752, 753, 754, 755, 756, 757, 758, 759, 760, 761,
                 762, 763, 764, 765, 766, 767, 768, 769, 770, 771, 772, 773, 774,
                 775, 776, 777, 778, 779, 780, 781, 782, 783, 784, 786, 787, 788,
                 789, 790, 791, 792, 796, 797, 798, 799, 800, 801, 802, 803, 804,
                 805, 806, 807, 808, 812, 813, 814, 815, 816, 817, 818, 819, 820,
                 821, 822, 823, 824, 828, 829, 830, 831, 832, 833, 834, 835, 836,
                 837, 838, 839, 840, 844, 845, 846, 847, 848, 849, 850, 851, 852,
                 853, 854, 855, 856, 860, 861, 862, 863, 864, 865, 866, 867, 868,
                 869, 870, 871, 872, 876, 877, 878, 879, 880, 881, 882, 883, 884,
                 885, 886, 887, 888, 889, 890, 891, 892, 893, 894, 895, 896, 905,
                 906, 907, 908, 909, 910, 911}],
     \* fdlibm, tick 2, mazeAngle 0.041666666666666664 after 0.020833333333333332: 149 hits, ball at (13.235531054291387, 17.92301570051949)
     [rt |-> "fdlibm",
      b |-> Ball8([neg |-> FALSE, m |-> <<28273, 6350, 13349, 193>>, e |-> -50],
               [neg |-> FALSE, m |-> <<7125, 14980, 3206, 223>>, e |-> -49],
               [neg |-> FALSE, m |-> <<25463, 16460, 28542, 136>>, e |-> -50],
               [neg |-> FALSE, m |-> <<1531, 2873, 22918, 174>>, e |-> -50]),
      ball |-> Ball8([neg |-> FALSE, m |-> <<16241, 3453, 25182, 211>>, e |-> -49],
                  [neg |-> FALSE, m |-> <<27901, 910, 12587, 143>>, e |-> -48],
                  [neg |-> FALSE, m |-> <<20396, 7986, 25012, 196>>, e |-> -54],
                  [neg |-> FALSE, m |-> <<14047, 28457, 14307, 217>>, e |-> -51]),
      hits |-> {566, 567, 568, 569, 570, 571, 738, 739, 740, 741, 742, 743, 744,
                 749, 750, 751, 752, 753, 754, 755, 756, 757, 758, 759, 760, 761,
                 762, 763, 764, 765, 766, 767, 768, 769, 770, 771, 772, 773, 774,
                 775, 776, 777, 778, 779, 780, 781, 782, 783, 784, 786, 787, 788,
                 789, 790, 791, 792, 796, 797, 798, 799, 800, 801, 802, 803, 804,
                 805, 806, 807, 808, 812, 813, 814, 815, 816, 817, 818, 819, 820,
                 821, 822, 823, 824, 828, 829, 830, 831, 832, 833, 834, 835, 836,
                 837, 838, 839, 840, 844, 845, 846, 847, 848, 849, 850, 851, 852,
                 853, 854, 855, 856, 860, 861, 862, 863, 864, 865, 866, 867, 868,
                 869, 870, 871, 872, 876, 877, 878, 879, 880, 881, 882, 883, 884,
                 885, 886, 887, 888, 889, 890, 891, 892, 893, 894, 895, 896, 905,
                 906, 907, 908, 909, 910, 911}],
     \* libm, tick 1, mazeAngle 0.0: 106 hits, ball at (6.008902371562116, 13.897867625829042)
     [rt |-> "libm",
      b |-> Ball8(FZero,
               [neg |-> FALSE, m |-> <<7427, 8301, 3495, 168>>, e |-> -57],
               FZero,
               [neg |-> FALSE, m |-> <<13107, 26214, 19660, 157>>, e |-> -50]),
      ball |-> Ball8([neg |-> FALSE, m |-> <<23889, 26645, 9334, 192>>, e |-> -50],
                  [neg |-> FALSE, m |-> <<9555, 7268, 11989, 222>>, e |-> -49],
                  [neg |-> FALSE, m |-> <<895, 19211, 11753, 132>>, e |-> -50],
                  [neg |-> FALSE, m |-> <<28755, 3507, 542, 140>>, e |-> -53]),
      hits |-> {897, 898, 899, 900, 901, 902, 903, 904, 913, 914, 915, 916, 917,
                 918, 919, 920, 929, 930, 931, 932, 933, 934, 935, 936, 945, 946,
                 947, 948, 949, 950, 951, 952, 953, 954, 955, 956, 957, 958, 959,
                 960, 977, 978, 979, 980, 981, 982, 983, 984, 993, 994, 995, 996,
                 997, 998, 999, 1000, 1009, 1010, 1011, 1012, 1013, 1014, 1015,
                 1016, 1025, 1026, 1027, 1028, 1029, 1030, 1031, 1032, 1041, 1042,
                 1043, 1044, 1045, 1046, 1047, 1048, 1057, 1058, 1059, 1060, 1061,
                 1062, 1063, 1064, 1065, 1066, 1067, 1068, 1069, 1070, 1071, 1072,
                 1073, 1074, 1075, 1076, 1077, 1078, 1079, 1080, 1081, 1082}],
     \* libm, tick 2, mazeAngle 0.0 after 0.0: 149 hits, ball at (13.235531054265373, 17.92301570053813)
     [rt |-> "libm",
      b |-> Ball8([neg |-> FALSE, m |-> <<31748, 13713, 12167, 193>>, e |-> -50],
               [neg |-> FALSE, m |-> <<14610, 21187, 3092, 223>>, e |-> -49],
               [neg |-> FALSE, m |-> <<25621, 21052, 12232, 130>>, e |-> -50],
               [neg |-> FALSE, m |-> <<898, 31029, 27509, 174>>, e |-> -50]),
      ball |-> Ball8([neg |-> FALSE, m |-> <<1596, 3453, 25182, 211>>, e |-> -49],
                  [neg |-> FALSE, m |-> <<380, 911, 12587, 143>>, e |-> -48],
                  [neg |-> FALSE, m |-> <<8456, 21616, 30938, 197>>, e |-> -54],
                  [neg |-> FALSE, m |-> <<24203, 25896, 24299, 218>>, e |-> -51]),
      hits |-> {566, 567, 568, 569, 570, 571, 738, 739, 740, 741, 742, 743, 744,
                 749, 750, 751, 752, 753, 754, 755, 756, 757, 758, 759, 760, 761,
                 762, 763, 764, 765, 766, 767, 768, 769, 770, 771, 772, 773, 774,
                 775, 776, 777, 778, 779, 780, 781, 782, 783, 784, 786, 787, 788,
                 789, 790, 791, 792, 796, 797, 798, 799, 800, 801, 802, 803, 804,
                 805, 806, 807, 808, 812, 813, 814, 815, 816, 817, 818, 819, 820,
                 821, 822, 823, 824, 828, 829, 830, 831, 832, 833, 834, 835, 836,
                 837, 838, 839, 840, 844, 845, 846, 847, 848, 849, 850, 851, 852,
                 853, 854, 855, 856, 860, 861, 862, 863, 864, 865, 866, 867, 868,
                 869, 870, 871, 872, 876, 877, 878, 879, 880, 881, 882, 883, 884,
                 885, 886, 887, 888, 889, 890, 891, 892, 893, 894, 895, 896, 905,
                 906, 907, 908, 909, 910, 911}],
     \* libm, tick 2, mazeAngle -0.020833333333333332 after 0.0: 149 hits, ball at (13.235531054230893, 17.923015700562836)
     [rt |-> "libm",
      b |-> Ball8([neg |-> FALSE, m |-> <<25296, 29965, 11270, 193>>, e |-> -50],
               [neg |-> FALSE, m |-> <<18234, 32018, 3087, 223>>, e |-> -49],
               [neg |-> FALSE, m |-> <<10077, 10378, 5912, 254>>, e |-> -51],
               [neg |-> FALSE, m |-> <<18662, 9055, 26389, 174>>, e |-> -50]),
      ball |-> Ball8([neg |-> FALSE, m |-> <<14954, 3452, 25182, 211>>, e |-> -49],
                  [neg |-> FALSE, m |-> <<7334, 911, 12587, 143>>, e |-> -48],
                  [neg |-> FALSE, m |-> <<17852, 25611, 13577, 198>>, e |-> -54],
                  [neg |-> FALSE, m |-> <<26919, 22688, 8557, 219>>, e |-> -51]),
      hits |-> {566, 567, 568, 569, 570, 571, 738, 739, 740, 741, 742, 743, 744,
                 749, 750, 751, 752, 753, 754, 755, 756, 757, 758, 759, 760, 761,
                 762, 763, 764, 765, 766, 767, 768, 769, 770, 771, 772, 773, 774,
                 775, 776, 777, 778, 779, 780, 781, 782, 783, 784, 786, 787, 788,
                 789, 790, 791, 792, 796, 797, 798, 799, 800, 801, 802, 803, 804,
                 805, 806, 807, 808, 812, 813, 814, 815, 816, 817, 818, 819, 820,
                 821, 822, 823, 824, 828, 829, 830, 831, 832, 833, 834, 835, 836,
                 837, 838, 839, 840, 844, 845, 846, 847, 848, 849, 850, 851, 852,
                 853, 854, 855, 856, 860, 861, 862, 863, 864, 865, 866, 867, 868,
                 869, 870, 871, 872, 876, 877, 878, 879, 880, 881, 882, 883, 884,
                 885, 886, 887, 888, 889, 890, 891, 892, 893, 894, 895, 896, 905,
                 906, 907, 908, 909, 910, 911}],
     \* libm, tick 2, mazeAngle 0.020833333333333332 after 0.0: 149 hits, ball at (13.235531054301537, 17.923015700512213)
     [rt |-> "libm",
      b |-> Ball8([neg |-> FALSE, m |-> <<5432, 30230, 13063, 193>>, e |-> -50],
               [neg |-> FALSE, m |-> <<18234, 32018, 3087, 223>>, e |-> -49],
               [neg |-> FALSE, m |-> <<13436, 4148, 21509, 133>>, e |-> -50],
               [neg |-> FALSE, m |-> <<18662, 9055, 26389, 174>>, e |-> -50]),
      ball |-> Ball8([neg |-> FALSE, m |-> <<21955, 3453, 25182, 211>>, e |-> -49],
                  [neg |-> FALSE, m |-> <<25853, 910, 12587, 143>>, e |-> -48],
                  [neg |-> FALSE, m |-> <<25156, 5081, 12717, 197>>, e |-> -54],
                  [neg |-> FALSE, m |-> <<26743, 26437, 4163, 218>>, e |-> -51]),
      hits |-> {566, 567, 568, 569, 570, 571, 738, 739, 740, 741, 742, 743, 744,
                 749, 750, 751, 752, 753, 754, 755, 756, 757, 758, 759, 760, 761,
                 762, 763, 764, 765, 766, 767, 768, 769, 770, 771, 772, 773, 774,
                 775, 776, 777, 778, 779, 780, 781, 782, 783, 784, 786, 787, 788,
                 789, 790, 791, 792, 796, 797, 798, 799, 800, 801, 802, 803, 804,
                 805, 806, 807, 808, 812, 813, 814, 815, 816, 817, 818, 819, 820,
                 821, 822, 823, 824, 828, 829, 830, 831, 832, 833, 834, 835, 836,
                 837, 838, 839, 840, 844, 845, 846, 847, 848, 849, 850, 851, 852,
                 853, 854, 855, 856, 860, 861, 862, 863, 864, 865, 866, 867, 868,
                 869, 870, 871, 872, 876, 877, 878, 879, 880, 881, 882, 883, 884,
                 885, 886, 887, 888, 889, 890, 891, 892, 893, 894, 895, 896, 905,
                 906, 907, 908, 909, 910, 911}],
     \* libm, tick 1, mazeAngle -0.020833333333333332: 106 hits, ball at (6.009194635319222, 13.89773645962982)
     [rt |-> "libm",
      b |-> Ball8([neg |-> TRUE, m |-> <<483, 1613, 4129, 224>>, e |-> -63],
               [neg |-> FALSE, m |-> <<17637, 28553, 2299, 168>>, e |-> -57],
               [neg |-> TRUE, m |-> <<6597, 32232, 3870, 210>>, e |-> -56],
               [neg |-> FALSE, m |-> <<30871, 4240, 18540, 157>>, e |-> -50]),
      ball |-> Ball8([neg |-> FALSE, m |-> <<31380, 8975, 9641, 192>>, e |-> -50],
                  [neg |-> FALSE, m |-> <<4837, 14842, 11920, 222>>, e |-> -49],
                  [neg |-> FALSE, m |-> <<19750, 6122, 12088, 132>>, e |-> -50],
                  [neg |-> FALSE, m |-> <<3111, 7351, 136, 140>>, e |-> -53]),
      hits |-> {897, 898, 899, 900, 901, 902, 903, 904, 913, 914, 915, 916, 917,
                 918, 919, 920, 929, 930, 931, 932, 933, 934, 935, 936, 945, 946,
                 947, 948, 949, 950, 951, 952, 953, 954, 955, 956, 957, 958, 959,
                 960, 977, 978, 979, 980, 981, 982, 983, 984, 993, 994, 995, 996,
                 997, 998, 999, 1000, 1009, 1010, 1011, 1012, 1013, 1014, 1015,
                 1016, 1025, 1026, 1027, 1028, 1029, 1030, 1031, 1032, 1041, 1042,
                 1043, 1044, 1045, 1046, 1047, 1048, 1057, 1058, 1059, 1060, 1061,
                 1062, 1063, 1064, 1065, 1066, 1067, 1068, 1069, 1070, 1071, 1072,
                 1073, 1074, 1075, 1076, 1077, 1078, 1079, 1080, 1081, 1082}],
     \* libm, tick 2, mazeAngle -0.020833333333333332 after -0.020833333333333332: 149 hits, ball at (13.235531054255508, 17.9230157005452)
     [rt |-> "libm",
      b |-> Ball8([neg |-> FALSE, m |-> <<24241, 3989, 11580, 193>>, e |-> -50],
               [neg |-> FALSE, m |-> <<8306, 1, 3019, 223>>, e |-> -49],
               [neg |-> FALSE, m |-> <<23300, 15723, 6571, 254>>, e |-> -51],
               [neg |-> FALSE, m |-> <<13294, 9897, 26339, 174>>, e |-> -50]),
      ball |-> Ball8([neg |-> FALSE, m |-> <<28811, 3452, 25182, 211>>, e |-> -49],
                  [neg |-> FALSE, m |-> <<2370, 911, 12587, 143>>, e |-> -48],
                  [neg |-> FALSE, m |-> <<2134, 25410, 13290, 198>>, e |-> -54],
                  [neg |-> FALSE, m |-> <<15410, 17405, 8240, 219>>, e |-> -51]),
      hits |-> {566, 567, 568, 569, 570, 571, 738, 739, 740, 741, 742, 743, 744,
                 749, 750, 751, 752, 753, 754, 755, 756, 757, 758, 759, 760, 761,
                 762, 763, 764, 765, 766, 767, 768, 769, 770, 771, 772, 773, 774,
                 775, 776, 777, 778, 779, 780, 781, 782, 783, 784, 786, 787, 788,
                 789, 790, 791, 792, 796, 797, 798, 799, 800, 801, 802, 803, 804,
                 805, 806, 807, 808, 812, 813, 814, 815, 816, 817, 818, 819, 820,
                 821, 822, 823, 824, 828, 829, 830, 831, 832, 833, 834, 835, 836,
                 837, 838, 839, 840, 844, 845, 846, 847, 848, 849, 850, 851, 852,
                 853, 854, 855, 856, 860, 861, 862, 863, 864, 865, 866, 867, 868,
                 869, 870, 871, 872, 876, 877, 878, 879, 880, 881, 882, 883, 884,
                 885, 886, 887, 888, 889, 890, 891, 892, 893, 894, 895, 896, 905,
                 906, 907, 908, 909, 910, 911}],
     \* libm, tick 2, mazeAngle -0.041666666666666664 after -0.020833333333333332: 149 hits, ball at (13.23553105422276, 17.923015700568666)
     [rt |-> "libm",
      b |-> Ball8([neg |-> FALSE, m |-> <<11839, 223, 10684, 193>>, e |-> -50],
               [neg |-> FALSE, m |-> <<32537, 32560, 3004, 223>>, e |-> -49],
               [neg |-> FALSE, m |-> <<28859, 29296, 20879, 247>>, e |-> -51],
               [neg |-> FALSE, m |-> <<28885, 25450, 22977, 174>>, e |-> -50]),
      ball |-> Ball8([neg |-> FALSE, m |-> <<10375, 3452, 25182, 211>>, e |-> -49],
                  [neg |-> FALSE, m |-> <<8975, 911, 12587, 143>>, e |-> -48],
                  [neg |-> FALSE, m |-> <<26354, 30368, 25879, 198>>, e |-> -54],
                  [neg |-> FALSE, m |-> <<22303, 12680, 22152, 219>>, e |-> -51]),
      hits |-> {566, 567, 568, 569, 570, 571, 738, 739, 740, 741, 742, 743, 744,
                 749, 750, 751, 752, 753, 754, 755, 756, 757, 758, 759, 760, 761,
                 762, 763, 764, 765, 766, 767, 768, 769, 770, 771, 772, 773, 774,
                 775, 776, 777, 778, 779, 780, 781, 782, 783, 784, 786, 787, 788,
                 789, 790, 791, 792, 796, 797, 798, 799, 800, 801, 802, 803, 804,
                 805, 806, 807, 808, 812, 813, 814, 815, 816, 817, 818, 819, 820,
                 821, 822, 823, 824, 828, 829, 830, 831, 832, 833, 834, 835, 836,
                 837, 838, 839, 840, 844, 845, 846, 847, 848, 849, 850, 851, 852,
                 853, 854, 855, 856, 860, 861, 862, 863, 864, 865, 866, 867, 868,
                 869, 870, 871, 872, 876, 877, 878, 879, 880, 881, 882, 883, 884,
                 885, 886, 887, 888, 889, 890, 891, 892, 893, 894, 895, 896, 905,
                 906, 907, 908, 909, 910, 911}],
     \* libm, tick 2, mazeAngle 0.0 after -0.020833333333333332: 149 hits, ball at (13.235531054289991, 17.923015700520487)
     [rt |-> "libm",
      b |-> Ball8([neg |-> FALSE, m |-> <<30693, 20505, 12476, 193>>, e |-> -50],
               [neg |-> FALSE, m |-> <<4682, 21938, 3023, 223>>, e |-> -49],
               [neg |-> FALSE, m |-> <<15849, 7341, 12562, 130>>, e |-> -50],
               [neg |-> FALSE, m |-> <<28297, 31870, 27459, 174>>, e |-> -50]),
      ball |-> Ball8([neg |-> FALSE, m |-> <<15455, 3453, 25182, 211>>, e |-> -49],
                  [neg |-> FALSE, m |-> <<28182, 910, 12587, 143>>, e |-> -48],
                  [neg |-> FALSE, m |-> <<15796, 178, 30649, 197>>, e |-> -54],
                  [neg |-> FALSE, m |-> <<6590, 23028, 23979, 218>>, e |-> -51]),
      hits |-> {566, 567, 568, 569, 570, 571, 738, 739, 740, 741, 742, 743, 744,
                 749, 750, 751, 752, 753, 754, 755, 756, 757, 758, 759, 760, 761,
                 762, 763, 764, 765, 766, 767, 768, 769, 770, 771, 772, 773, 774,
                 775, 776, 777, 778, 779, 780, 781, 782, 783, 784, 786, 787, 788,
                 789, 790, 791, 792, 796, 797, 798, 799, 800, 801, 802, 803, 804,
                 805, 806, 807, 808, 812, 813, 814, 815, 816, 817, 818, 819, 820,
                 821, 822, 823, 824, 828, 829, 830, 831, 832, 833, 834, 835, 836,
                 837, 838, 839, 840, 844, 845, 846, 847, 848, 849, 850, 851, 852,
                 853, 854, 855, 856, 860, 861, 862, 863, 864, 865, 866, 867, 868,
                 869, 870, 871, 872, 876, 877, 878, 879, 880, 881, 882, 883, 884,
                 885, 886, 887, 888, 889, 890, 891, 892, 893, 894, 895, 896, 905,
                 906, 907, 908, 909, 910, 911}],
     \* libm, tick 1, mazeAngle 0.020833333333333332: 106 hits, ball at (6.008337281189054, 13.898121195083547)
     [rt |-> "libm",
      b |-> Ball8([neg |-> FALSE, m |-> <<483, 1613, 4129, 224>>, e |-> -63],
               [neg |-> FALSE, m |-> <<17637, 28553, 2299, 168>>, e |-> -57],
               [neg |-> FALSE, m |-> <<6597, 32232, 3870, 210>>, e |-> -56],
               [neg |-> FALSE, m |-> <<30871, 4240, 18540, 157>>, e |-> -50]),
      ball |-> Ball8([neg |-> FALSE, m |-> <<11677, 8944, 8742, 192>>, e |-> -50],
                  [neg |-> FALSE, m |-> <<29920, 5410, 12122, 222>>, e |-> -49],
                  [neg |-> FALSE, m |-> <<22081, 23630, 9523, 132>>, e |-> -50],
                  [neg |-> FALSE, m |-> <<13826, 14431, 32419, 139>>, e |-> -53]),
      hits |-> {897, 898, 899, 900, 901, 902, 903, 904, 913, 914, 915, 916, 917,
                 918, 919, 920, 929, 930, 931, 932, 933, 934, 935, 936, 945, 946,
                 947, 948, 949, 950, 951, 952, 953, 954, 955, 956, 957, 958, 959,
                 960, 977, 978, 979, 980, 981, 982, 983, 984, 993, 994, 995, 996,
                 997, 998, 999, 1000, 1009, 1010, 1011, 1012, 1013, 1014, 1015,
                 1016, 1025, 1026, 1027, 1028, 1029, 1030, 1031, 1032, 1041, 1042,
                 1043, 1044, 1045, 1046, 1047, 1048, 1057, 1058, 1059, 1060, 1061,
                 1062, 1063, 1064, 1065, 1066, 1067, 1068, 1069, 1070, 1071, 1072,
                 1073, 1074, 1075, 1076, 1077, 1078, 1079, 1080, 1081, 1082}],
     \* libm, tick 2, mazeAngle 0.020833333333333332 after 0.020833333333333332: 149 hits, ball at (13.235531054253544, 17.923015700546607)
     [rt |-> "libm",
      b |-> Ball8([neg |-> FALSE, m |-> <<15872, 2584, 12453, 193>>, e |-> -50],
               [neg |-> FALSE, m |-> <<15662, 15188, 3220, 223>>, e |-> -49],
               [neg |-> FALSE, m |-> <<11858, 23247, 19312, 133>>, e |-> -50],
               [neg |-> FALSE, m |-> <<18708, 20087, 26279, 174>>, e |-> -50]),
      ball |-> Ball8([neg |-> FALSE, m |-> <<27705, 3452, 25182, 211>>, e |-> -49],
                  [neg |-> FALSE, m |-> <<2766, 911, 12587, 143>>, e |-> -48],
                  [neg |-> FALSE, m |-> <<8952, 16837, 13267, 197>>, e |-> -54],
                  [neg |-> FALSE, m |-> <<12138, 32457, 4771, 218>>, e |-> -51]),
      hits |-> {566, 567, 568, 569, 570, 571, 738, 739, 740, 741, 742, 743, 744,
                 749, 750, 751, 752, 753, 754, 755, 756, 757, 758, 759, 760, 761,
                 762, 763, 764, 765, 766, 767, 768, 769, 770, 771, 772, 773, 774,
                 775, 776, 777, 778, 779, 780, 781, 782, 783, 784, 786, 787, 788,
                 789, 790, 791, 792, 796, 797, 798, 799, 800, 801, 802, 803, 804,
                 805, 806, 807, 808, 812, 813, 814, 815, 816, 817, 818, 819, 820,
                 821, 822, 823, 824, 828, 829, 830, 831, 832, 833, 834, 835, 836,
                 837, 838, 839, 840, 844, 845, 846, 847, 848, 849, 850, 851, 852,
                 853, 854, 855, 856, 860, 861, 862, 863, 864, 865, 866, 867, 868,
                 869, 870, 871, 872, 876, 877, 878, 879, 880, 881, 882, 883, 884,
                 885, 886, 887, 888, 889, 890, 891, 892, 893, 894, 895, 896, 905,
                 906, 907, 908, 909, 910, 911}],
     \* libm, tick 2, mazeAngle 0.0 after 0.020833333333333332: 149 hits, ball at (13.235531054217395, 17.92301570057251)
     [rt |-> "libm",
      b |-> Ball8([neg |-> FALSE, m |-> <<9420, 18836, 11556, 193>>, e |-> -50],
               [neg |-> FALSE, m |-> <<12038, 4357, 3225, 223>>, e |-> -49],
               [neg |-> FALSE, m |-> <<24043, 7383, 10036, 130>>, e |-> -50],
               [neg |-> FALSE, m |-> <<944, 9293, 27400, 174>>, e |-> -50]),
      ball |-> Ball8([neg |-> FALSE, m |-> <<7355, 3452, 25182, 211>>, e |-> -49],
                  [neg |-> FALSE, m |-> <<10057, 911, 12587, 143>>, e |-> -48],
                  [neg |-> FALSE, m |-> <<19664, 27987, 31483, 197>>, e |-> -54],
                  [neg |-> FALSE, m |-> <<9468, 8752, 24902, 218>>, e |-> -51]),
      hits |-> {566, 567, 568, 569, 570, 571, 738, 739, 740, 741, 742, 743, 744,
                 749, 750, 751, 752, 753, 754, 755, 756, 757, 758, 759, 760, 761,
                 762, 763, 764, 765, 766, 767, 768, 769, 770, 771, 772, 773, 774,
                 775, 776, 777, 778, 779, 780, 781, 782, 783, 784, 786, 787, 788,
                 789, 790, 791, 792, 796, 797, 798, 799, 800, 801, 802, 803, 804,
                 805, 806, 807, 808, 812, 813, 814, 815, 816, 817, 818, 819, 820,
                 821, 822, 823, 824, 828, 829, 830, 831, 832, 833, 834, 835, 836,
                 837, 838, 839, 840, 844, 845, 846, 847, 848, 849, 850, 851, 852,
                 853, 854, 855, 856, 860, 861, 862, 863, 864, 865, 866, 867, 868,
                 869, 870, 871, 872, 876, 877, 878, 879, 880, 881, 882, 883, 884,
                 885, 886, 887, 888, 889, 890, 891, 892, 893, 894, 895, 896, 905,
                 906, 907, 908, 909, 910, 911}],
     \* libm, tick 2, mazeAngle 0.041666666666666664 after 0.020833333333333332: 149 hits, ball at (13.235531054291387, 17.92301570051949)
     [rt |-> "libm",
      b |-> Ball8([neg |-> FALSE, m |-> <<28273, 6350, 13349, 193>>, e |-> -50],
               [neg |-> FALSE, m |-> <<7125, 14980, 3206, 223>>, e |-> -49],
               [neg |-> FALSE, m |-> <<25463, 16460, 28542, 136>>, e |-> -50],
               [neg |-> FALSE, m |-> <<1531, 2873, 22918, 174>>, e |-> -50]),
      ball |-> Ball8([neg |-> FALSE, m |-> <<16241, 3453, 25182, 211>>, e |-> -49],
                  [neg |-> FALSE, m |-> <<27901, 910, 12587, 143>>, e |-> -48],
                  [neg |-> FALSE, m |-> <<20422, 7986, 25012, 196>>, e |-> -54],
                  [neg |-> FALSE, m |-> <<14047, 28457, 14307, 217>>, e |-> -51]),
      hits |-> {566, 567, 568, 569, 570, 571, 738, 739, 740, 741, 742, 743, 744,
                 749, 750, 751, 752, 753, 754, 755, 756, 757, 758, 759, 760, 761,
                 762, 763, 764, 765, 766, 767, 768, 769, 770, 771, 772, 773, 774,
                 775, 776, 777, 778, 779, 780, 781, 782, 783, 784, 786, 787, 788,
                 789, 790, 791, 792, 796, 797, 798, 799, 800, 801, 802, 803, 804,
                 805, 806, 807, 808, 812, 813, 814, 815, 816, 817, 818, 819, 820,
                 821, 822, 823, 824, 828, 829, 830, 831, 832, 833, 834, 835, 836,
                 837, 838, 839, 840, 844, 845, 846, 847, 848, 849, 850, 851, 852,
                 853, 854, 855, 856, 860, 861, 862, 863, 864, 865, 866, 867, 868,
                 869, 870, 871, 872, 876, 877, 878, 879, 880, 881, 882, 883, 884,
                 885, 886, 887, 888, 889, 890, 891, 892, 893, 894, 895, 896, 905,
                 906, 907, 908, 909, 910, 911}]}

\* what physicsTick sees of a resolveCollisions call: the ball after it, the
\* count it returns and, for every segment, whether it was hit
Observed(res) ==
    [ball |-> res.ball, collisionCount |-> res.collisionCount,
     hit |-> [i \in DOMAIN res.results |-> [hit |-> res.results[i].hit]]]

\* the same of a row of the table
Listed(w, row) ==
    [ball |-> row.ball, collisionCount |-> Cardinality(row.hits),
     hit |-> [i \in DOMAIN w |-> [hit |-> i \in row.hits]]]

\* the rows of the table for the ball b and the segments w of the maze m
Rows(w, m, b) ==
    IF Plan(m) = CanvasPlan
    THEN {row \in ResolveTable : row.b = b /\ row.rt = RuntimeAt(w, m)}
    ELSE {}

\* const collisions = resolveCollisions(game.ball, game.wallSegments, bounceBall)
Resolved(b, w, m) ==
    IF Rows(w, m, b) # {} THEN Listed(w, The(Rows(w, m, b)))
    ELSE Observed(resolveCollisions(b, w))

\* the base seeds (Date.now() at boot)
BaseSeeds == {1000}

\* the keys the player uses: one that turns the maze and the reset key
Keys == {"ArrowLeft", "r"}

\* the time of the last animation frame of a behaviour, in milliseconds
MaxNow == 68

\* the requestAnimationFrame timestamps in milliseconds, the clock reading 0
\* at boot: a frame of two ticks and a late frame of six or eight; a timestamp
\* taken again is a frame without a tick
FrameTimes == {0, 18, MaxNow}

\* const keys = new Set<string>(); let resetEdge = false (F1, which sets
\* debugEdge, is not among Keys)
initInput == [keys |-> {}, resetEdge |-> FALSE]

\* the InputState readInput() returns
readInput(inp) ==
    [left |-> inp.keys \cap {"a", "A", "ArrowLeft"} # {},
     right |-> inp.keys \cap {"d", "D", "ArrowRight"} # {},
     resetPressed |-> inp.resetEdge]

\* the input manager after readInput(): resetEdge = false
Read(inp) == [inp EXCEPT !.resetEdge = FALSE]

\* the profile after lines 137-138 of resetGame that keeps it as it was
ProfileKept(pf, metrics) == pf

\* if (state.lastMetrics) updateProfile(state.profile, state.lastMetrics)
ProfileAfter(pf, metrics) ==
    IF metrics # NoMetrics THEN updateProfile(pf, metrics) ELSE pf

\* if (state.lastMetrics) state.genParams = mapProfileToParams(profile, genParams)
ParamsAfter(pf, metrics, genParams) ==
    IF metrics # NoMetrics THEN mapProfileToParams(pf, genParams) ELSE genParams

\* the game and the input manager as one value
State ==
    [game |-> game, maze |-> maze, walls |-> walls, ball |-> ball,
     tracker |-> tracker, lastMetrics |-> lastMetrics, profile |-> profile,
     params |-> params, contact |-> contact, input |-> input]

\* the variables the game leaves alone
GameUnchanged ==
    UNCHANGED <<mode, pc, call, attempt, seed, rng, cells, entry, built, solution,
                first, nextParams, carving, instances, drawn>>

\* let game = initGame(); const timeState = createTimeState()
GameInit ==
    /\ mode = "game"
    /\ pc = 0
    /\ call = 1 /\ attempt = 0 /\ seed = 0 /\ rng = NoRng /\ cells = NoCells
    /\ entry = {} /\ built = 0 /\ solution = NoSolution
    /\ first = NoMaze /\ nextParams = NoParams /\ carving = NoCarving
    /\ instances = <<>> /\ drawn = <<>>
    /\ timeState = createTimeState(FromInt(0))
    /\ alpha = FZero
    /\ ticked = 0
    /\ input = initInput
    /\ profile = createProfile
    /\ params = defaultGenerationParams
    /\ \E baseSeed \in BaseSeeds, rt \in Runtimes :
       \E made \in {createMaze(rt, baseSeed, 0, defaultGenerationParams)} :
         /\ maze = made.maze
         /\ config = made.maze.config
         /\ exit = made.maze.exit
         /\ walls = made.segments
         /\ game = [status |-> "playing", baseSeed |-> baseSeed, attemptIndex |-> 0,
                    mazeAngle |-> FZero, mazeRadius |-> computeMazeRadius,
                    lastInput |-> [left |-> FALSE, right |-> FALSE]]
         /\ tracker = createMetricsTracker(made.maze.config)
    /\ ball = createBall(FZero, FZero, FromInt(BALL_RADIUS))
    /\ contact = <<>>
    /\ lastMetrics = NoMetrics

\* resetGame from the new maze on: resetBall, mazeAngle = 0, status = 'playing',
\* metricsTracker = createMetricsTracker(maze.config)
Restarted(s, pf, p, made) ==
    [s EXCEPT !.profile = pf,
              !.params = p,
              !.maze = made.maze,
              !.walls = made.segments,
              !.ball = resetBall(s.ball, FZero, FZero),
              !.tracker = createMetricsTracker(made.maze.config),
              !.game = [@ EXCEPT !.attemptIndex = @ + 1,
                                 !.mazeRadius = computeMazeRadius,
                                 !.mazeAngle = FZero,
                                 !.status = "playing"]]

\* resetGame from createMaze(baseSeed, attemptIndex, genParams) on
Regenerated(s, pf, p) ==
    The({Restarted(s, pf, p, made) :
           made \in {createMazeAgain(s.game.baseSeed, s.game.attemptIndex + 1, p,
                                     s.maze, s.walls)}})

\* resetGame from the mapping on
Remapped(s, pf) ==
    The({Regenerated(s, pf, p) : p \in {ParamsAfter(pf, s.lastMetrics, s.params)}})

\* resetGame(state)
resetGame(s) ==
    The({Remapped(s, pf) : pf \in {ProfileAfter(s.profile, s.lastMetrics)}})

\* if (input.left) game.mazeAngle -= ROT_SPEED * dt;
\* if (input.right) game.mazeAngle += ROT_SPEED * dt
Turned(angle, dt, left, right) ==
    IF left /\ right THEN FAdd(FSub(angle, FMul(ROT_SPEED, dt)), FMul(ROT_SPEED, dt))
    ELSE IF left THEN FSub(angle, FMul(ROT_SPEED, dt))
    ELSE IF right THEN FAdd(angle, FMul(ROT_SPEED, dt))
    ELSE angle

\* if ((input.left && !prevLeft) || (input.right && !prevRight))
\*     recordDirectionChange(tracker)
Steered(tr, left, right, lastInput) ==
    IF (left /\ ~lastInput.left) \/ (right /\ ~lastInput.right)
    THEN recordDirectionChange(tr) ELSE tr

\* if (collisions > 0) recordCollision(tracker)
Collided(tr, collisions) == IF collisions > 0 THEN recordCollision(tr) ELSE tr

\* physicsTick from the win check on, with the result won of checkWin(game)
Checked(s, won) ==
    IF won
    THEN [s EXCEPT !.game.status = "won", !.lastMetrics = snapshotMetrics(s.tracker)]
    ELSE s

\* physicsTick from recordTick on, the ball being in the slice `slice`
Recorded(s, inp, res, slice) ==
    {Checked([s EXCEPT !.ball = res.ball,
                       !.contact = res.hit,
                       !.tracker = recordTick(
                           Collided(Steered(s.tracker, inp.left, inp.right,
                                            s.game.lastInput),
                                    res.collisionCount),
                           res.ball, FIXED_DT, slice),
                       !.game.lastInput = [left |-> inp.left, right |-> inp.right]],
             won) :
       won \in checkWin(res.ball, s.maze.config, s.maze.exit)}

\* physicsTick from resolveCollisions on, the ball having moved
Bounced(s, inp, moved) ==
    UNION {UNION {Recorded(s, inp, res, slice) :
                    slice \in SliceOutcomes(res.ball.x, res.ball.y,
                                            s.maze.config.slices)} :
             res \in {Resolved(moved, s.walls, s.maze)}}

\* physicsTick from integrateBall on, the maze turned to angle
Integrated(s, inp, angle) ==
    UNION {Bounced([s EXCEPT !.game.mazeAngle = angle], inp, moved) :
             moved \in {integrateBall(s.ball, FIXED_DT, angle)}}

\* physicsTick without a reset: rotation, physics, collisions, metrics and the
\* win check
Played(s, inp) ==
    UNION {Integrated(s, inp, angle) :
             angle \in {Turned(s.game.mazeAngle, FIXED_DT, inp.left, inp.right)}
                          \cap Angles}

\* the possible states after physicsTick(dt) in the state s
physicsTick(s) ==
    IF s.game.status # "playing" THEN {s}
    ELSE IF readInput(s.input).resetPressed
    THEN {resetGame([s EXCEPT !.input = Read(s.input),
                              !.lastMetrics = snapshotMetrics(s.tracker)])}
    ELSE Played([s EXCEPT !.input = Read(s.input)], readInput(s.input))

\* the possible states after the n physicsTick calls of one updateTime call
RECURSIVE Ticks(_, _)
Ticks(S, n) ==
    IF n = 0 THEN S ELSE Ticks(UNION {physicsTick(s) : s \in S}, n - 1)

\* gameLoop before updateTime: if (game.status === 'won') { const input =
\* readInput(); if (input.resetPressed) resetGame(game) }
Polled(s) ==
    IF s.game.status # "won" THEN s
    ELSE IF readInput(s.input).resetPressed
    THEN resetGame([s EXCEPT !.input = Read(s.input)])
    ELSE [s EXCEPT !.input = Read(s.input)]

\* the game and the input manager become s
Becomes(s) ==
    /\ game' = s.game
    /\ maze' = s.maze
    /\ config' = s.maze.config
    /\ exit' = s.maze.exit
    /\ walls' = s.walls
    /\ ball' = s.ball
    /\ tracker' = s.tracker
    /\ lastMetrics' = s.lastMetrics
    /\ profile' = s.profile
    /\ params' = s.params
    /\ contact' = s.contact
    /\ input' = s.input

\* gameLoop(now): the poll after a win, then updateTime(timeState, now,
\* physicsTick) with every tick it runs; the timestamps never decrease
GameLoop ==
    /\ mode = "game"
    /\ \E now \in FrameTimes :
         /\ FGeq(FDiv(FromInt(now), FromInt(1000)), timeState.lastTime)
         /\ \E frame \in {updateTime(timeState, FromInt(now))} :
              /\ Updated(frame)
              /\ \E s \in Ticks({Polled(State)}, frame.ticks) : Becomes(s)
    /\ GameUnchanged

\* the variables a key event leaves alone
KeyUnchanged ==
    UNCHANGED <<game, maze, config, exit, walls, ball, tracker, lastMetrics,
                profile, params, contact, timeState, alpha, ticked>>

\* the keydown listener
KeyDown ==
    /\ mode = "game"
    /\ \E k \in Keys :
         input' = [keys |-> input.keys \cup {k},
                   resetEdge |-> input.resetEdge \/ k \in {"r", "R"}]
    /\ KeyUnchanged
    /\ GameUnchanged

\* the keyup listener
KeyUp ==
    /\ mode = "game"
    /\ \E k \in Keys : input' = [input EXCEPT !.keys = @ \ {k}]
    /\ KeyUnchanged
    /\ GameUnchanged

\* the blur listener
Blur ==
    /\ mode = "game"
    /\ input' = [input EXCEPT !.keys = {}]
    /\ KeyUnchanged
    /\ GameUnchanged

GameNext == KeyDown \/ KeyUp \/ Blur \/ GameLoop

SpecGame == GameInit /\ [][GameNext]_vars

\* hits among the results of the last resolveCollisions call
Hits(results) == Cardinality({i \in DOMAIN results : results[i].hit})

\* C19: after a physics tick in which resolveCollisions resolved k hits, the
\* collision count of the metrics tracker has grown by exactly k (checked on
\* the frames in which one tick played on the running attempt).
C19_CountsEveryHit ==
    [][(/\ mode = "game"
        /\ game'.attemptIndex = game.attemptIndex
        /\ tracker'.tickCount = tracker.tickCount + 1)
         => tracker'.collisions = tracker.collisions + Hits(contact')]_vars

\* the tracker createMetricsTracker returns
Zeroed(tr) ==
    /\ tr.tickCount = 0 /\ tr.idleTicks = 0 /\ tr.nearOuterTicks = 0
    /\ tr.collisions = 0 /\ tr.dirChanges = 0 /\ tr.visitedCells = {}
    /\ tr.totalSpeed = FZero /\ tr.totalTime = FZero

\* the tracker tr has counted nothing but some of n ticks
Fresh(tr, n) ==
    /\ tr.tickCount <= n
    /\ tr.idleTicks <= tr.tickCount /\ tr.nearOuterTicks <= tr.tickCount
    /\ tr.collisions <= tr.tickCount /\ tr.dirChanges <= tr.tickCount
    /\ Cardinality(tr.visitedCells) <= tr.tickCount
    /\ tr.tickCount = 0 => Zeroed(tr)

\* a frame that starts a new attempt from the one whose tracker is tracker:
\* the ticks of the frame that follow the reset are those of the new attempt
NewAttempt ==
    /\ game'.attemptIndex = game.attemptIndex + 1
    /\ profile' = updateProfile(profile, snapshotMetrics(tracker))
    /\ params' = mapProfileToParams(profile', params)
    /\ Fresh(tracker', IF game.status = "playing" THEN ticked' - 1 ELSE ticked')
    /\ lastMetrics' = snapshotMetrics(IF game'.status = "won" THEN tracker'
                                      ELSE tracker)

\* C20: every start of a new attempt, by a reset while playing or after a win,
\* applies updateProfile once to the snapshot of the attempt that just ended and
\* then mapProfileToParams once, and the new attempt starts with a zeroed
\* tracker; profile.attempts equals attemptIndex in every state of the game.
C20_OneUpdatePerAttempt ==
    /\ [](mode = "game" => profile.attempts = game.attemptIndex)
    /\ [][(mode = "game" /\ game'.attemptIndex # game.attemptIndex) => NewAttempt]_vars

\* C20 witness: the first attempt was won and reset after the win, the second
\* was reset while playing by the first tick of a frame, and the later ticks of
\* that frame won the third
C20_Witness ==
    /\ mode = "game"
    /\ game.attemptIndex = 2 /\ profile.attempts = 2
    /\ game.status = "won" /\ tracker.tickCount = 2 /\ ticked > 2
    /\ FGreater(profile.avgTime, FromRatio(115, 10000))
    /\ FLess(profile.avgTime, FromRatio(12, 1000))

---------------------------------------------------------------------------
(* The adaptive loop around generateMaze: resetGame maps the profile to the *)
(* parameters of the next attempt, whatever the generation of the running   *)
(* attempt needed                                                            *)

\* q is lower in difficulty than p: no more walls, decoys or path length, no
\* narrower corridor or exit, and different in one of these
Lowered(p, q) ==
    /\ FLeq(q.wallDensity, p.wallDensity)
    /\ FLeq(q.decoyRate, p.decoyRate)
    /\ FLeq(q.pathLengthBias, p.pathLengthBias)
    /\ FGeq(q.corridorWidth, p.corridorWidth)
    /\ q.exitWidth >= p.exitWidth
    /\ <<q.wallDensity, q.decoyRate, q.pathLengthBias, q.corridorWidth, q.exitWidth>>
         # <<p.wallDensity, p.decoyRate, p.pathLengthBias, p.corridorWidth, p.exitWidth>>

\* C21: when the generation of an attempt spent its whole retry budget and
\* returned the fallback maze, the parameters resetGame maps for the next
\* attempt are lower in difficulty than those the generation ran with.
C21_FailsafeLowersDifficulty ==
    [][(mode = "game" /\ game'.attemptIndex # game.attemptIndex /\ maze.fallback)
         => Lowered(params, params')]_vars

---------------------------------------------------------------------------
(* The retry loop of generateMaze *)

\* the loop head starts attempt number `attempt`
StartsAttempt ==
    /\ mode = "gen" /\ pc = "attempt" /\ attempt < MAX_REGEN_ATTEMPTS
    /\ (pc' = "carve" \/ attempt' = attempt + 1)

\* the position of a step inside one iteration of the attempt loop
StepOf(p) ==
    CASE p = "attempt" -> 0 [] p = "carve" -> 1 [] p = "holes" -> 2
      [] p = "openings" -> 3 [] p = "cap" -> 4 [] p = "exit" -> 5
      [] p = "ensure" -> 6 [] p = "validate" -> 7

\* how far a call of generateMaze has come: it grows with every step and is
\* at most 8 * (MAX_REGEN_ATTEMPTS + 1)
Progress(a, p) ==
    IF p \in {"returned", "threw"} THEN 8 * (MAX_REGEN_ATTEMPTS + 1)
    ELSE 8 * a + StepOf(p)

\* C22: generateMaze terminates after at most 20 attempts (every step of a
\* call moves it forward in the bounded attempt loop); attempt k runs on a
\* fresh RNG seeded with config.seed + k; a maze of an attempt is returned by the first attempt the solver accepts, with
\* finalSeed = config.seed + k; the fallback maze is returned only after 20
\* failed attempts.
C22_BoundedRetries ==
    /\ [](mode = "gen" => /\ attempt \in 0 .. MAX_REGEN_ATTEMPTS
                          /\ seed = config.seed + attempt)
    /\ [][(mode = "gen" /\ call' = call)
            => Progress(attempt', pc') > Progress(attempt, pc)]_vars
    /\ [][StartsAttempt => rng' = createRNG(config.seed + attempt)]_vars
    /\ []((Returned /\ ~maze.fallback) =>
            /\ attempt < MAX_REGEN_ATTEMPTS
            /\ solution.solvable
            /\ maze.finalSeed = config.seed + attempt)
    /\ []((Returned /\ maze.fallback) => attempt = MAX_REGEN_ATTEMPTS)

\* C22 witness: the fallback maze returned after 20 attempts that each built
\* a grid the solver rejected
C22_Witness ==
    /\ Returned /\ maze.fallback
    /\ attempt = MAX_REGEN_ATTEMPTS /\ built = MAX_REGEN_ATTEMPTS
    /\ seed = config.seed + MAX_REGEN_ATTEMPTS
    /\ ~solution.solvable

---------------------------------------------------------------------------
(* carveSpanningTree and openEntryHoles with every outcome of the RNG: each *)
(* rng.nextInt(0, n) may return any of 0 .. n - 1                           *)

\* cells of the largest lattice carved
MaxCarveCells == 12

CarveConfigs ==
    {[rings |-> r, slices |-> s, seed |-> 0,
      innerRadius |-> FromInt(30), outerRadius |-> FromInt(200),
      ballRadius |-> FromInt(6)] :
        r \in 1 .. MaxCarveCells, s \in 1 .. MaxCarveCells}

CarveInit ==
    /\ EngineIdle
    /\ mode = "carve"
    /\ pc = "start"
    /\ config \in {c \in CarveConfigs : c.rings * c.slices <= MaxCarveCells}
    /\ params = defaultGenerationParams
    /\ call = 1
    /\ attempt = 0
    /\ seed = 0
    /\ rng = NoRng
    /\ cells = createEmptyGrid(config)
    /\ exit = NoExit
    /\ entry = {}
    /\ built = 1
    /\ solution = NoSolution
    /\ maze = NoMaze
    /\ first = NoMaze
    /\ profile = NoProfile
    /\ nextParams = NoParams
    /\ carving = NoCarving

\* the variables carving and hole opening leave alone
CarveUnchanged ==
    UNCHANGED <<engineVars, mode, config, params, call, attempt, seed, rng, exit,
                built, solution, maze, first, profile, nextParams>>

\* the weighted list of the cell on top of the stack
TopWeighted ==
    Weighted(getNeighbors(carving.stack[Len(carving.stack)][1],
                          carving.stack[Len(carving.stack)][2], config),
             1, carving.visited)

\* const startS = rng.nextInt(0, config.slices); visited.add; stack.push
CarveBegin ==
    /\ mode = "carve" /\ pc = "start"
    /\ \E startS \in Slice(config) :
         carving' = [startS |-> startS, visited |-> {<<0, startS>>},
                     stack |-> << <<0, startS>> >>]
    /\ pc' = "loop"
    /\ UNCHANGED <<cells, entry>>
    /\ CarveUnchanged

\* if (weighted.length === 0) { stack.pop(); continue; }
CarvePop ==
    /\ mode = "carve" /\ pc = "loop"
    /\ carving.stack # <<>>
    /\ TopWeighted = <<>>
    /\ carving' = [carving EXCEPT !.stack = SubSeq(@, 1, Len(@) - 1)]
    /\ UNCHANGED <<pc, cells, entry>>
    /\ CarveUnchanged

\* chosen = weighted[rng.nextInt(0, weighted.length)]; visited.add; removeWall;
\* stack.push
CarvePush ==
    /\ mode = "carve" /\ pc = "loop"
    /\ carving.stack # <<>>
    /\ \E i \in 1 .. Len(TopWeighted) :
         /\ cells' = removeWall(cells, carving.stack[Len(carving.stack)][1],
                                carving.stack[Len(carving.stack)][2],
                                TopWeighted[i].ring, TopWeighted[i].slice,
                                TopWeighted[i].direction)
         /\ carving' = [carving EXCEPT
                          !.visited = @ \cup {<<TopWeighted[i].ring, TopWeighted[i].slice>>},
                          !.stack = Append(@, <<TopWeighted[i].ring, TopWeighted[i].slice>>)]
    /\ UNCHANGED <<pc, entry>>
    /\ CarveUnchanged

\* while (stack.length > 0) ends: carveSpanningTree returns
CarveReturn ==
    /\ mode = "carve" /\ pc = "loop"
    /\ carving.stack = <<>>
    /\ pc' = "carved"
    /\ UNCHANGED <<cells, entry, carving>>
    /\ CarveUnchanged

\* openEntryHoles(cells, config, rng) with offset = rng.nextInt(0, slices)
CarveOpenEntryHoles ==
    /\ mode = "carve" /\ pc = "carved"
    /\ \E offset \in Slice(config) :
         /\ cells' = HolesFrom(cells, config, numHolesOf(config),
                               config.slices \div numHolesOf(config),
                               [n |-> offset, state |-> rng]).cells
         /\ entry' = HolesFrom(cells, config, numHolesOf(config),
                               config.slices \div numHolesOf(config),
                               [n |-> offset, state |-> rng]).holes
    /\ pc' = "holes"
    /\ UNCHANGED carving
    /\ CarveUnchanged

CarveNext ==
    \/ CarveBegin
    \/ CarvePop
    \/ CarvePush
    \/ CarveReturn
    \/ CarveOpenEntryHoles

SpecCarve == CarveInit /\ [][CarveNext]_vars

\* the shared walls that are cleared: the outer wall of a cell below the last
\* ring and the clockwise wall of a cell
RemovedWalls(g, c) ==
    {w \in Ring(c) \X Slice(c) \X {"outer"} :
        w[1] < c.rings - 1 /\ ~g[w[1]][w[2]].wallOuter}
    \cup {w \in Ring(c) \X Slice(c) \X {"cw"} : ~g[w[1]][w[2]].wallCW}

\* every cell is reachable from a cell of S through cleared walls
RECURSIVE Spans(_, _, _)
Spans(g, c, S) ==
    \/ S = CellsOf(c)
    \/ \E T \in {Grow(g, c, S)} : T # S /\ Spans(g, c, T)

\* no wall of the lattice boundary is cleared
BoundaryClosed(g, c) ==
    \A s \in Slice(c) : g[0][s].wallInner /\ g[c.rings - 1][s].wallOuter

\* twice the cells visited minus the stack height: it grows with every
\* iteration of the carving loop and is at most twice the number of cells
CarveMeasure(cv) == 2 * Cardinality(cv.visited) - Len(cv.stack)

\* C23: immediately after carveSpanningTree, whatever the RNG returned, every
\* cell is reachable from the start cell through cleared walls and exactly
\* rings * slices - 1 shared walls are cleared (so the cleared walls form a
\* tree); every iteration of the carving loop makes progress towards its end.
C23_CarvesSpanningTree ==
    /\ []((mode = "carve" /\ pc = "carved") =>
            /\ Spans(cells, config, {<<0, carving.startS>>})
            /\ WallsAgree(cells, config)
            /\ Cardinality(RemovedWalls(cells, config)) = config.rings * config.slices - 1
            /\ BoundaryClosed(cells, config))
    /\ []((mode = "carve" /\ pc = "loop") =>
            /\ Len(carving.stack) <= Cardinality(carving.visited)
            /\ carving.visited \subseteq CellsOf(config))
    /\ [][(mode = "carve" /\ pc = "loop" /\ pc' = "loop")
            => CarveMeasure(carving') > CarveMeasure(carving)]_vars

\* C23 witness: a carved lattice of three rings and four slices that was started
\* away from slice 0 and has a radial and a tangential wall cleared
C23_Witness ==
    /\ mode = "carve" /\ pc = "carved"
    /\ config.rings = 3 /\ config.slices = 4
    /\ carving.startS = 2
    /\ \E s \in Slice(config) : ~cells[0][s].wallOuter
    /\ \E s \in Slice(config) : ~cells[1][s].wallCW

---------------------------------------------------------------------------
(* The maze of a successful attempt *)

\* the radial line of slice s is uninterrupted from ring 0 to the last ring
RadialOpen(g, c, s) ==
    \A r \in Ring(c) :
        r < c.rings - 1 => ~g[r][s].wallOuter /\ ~g[r + 1][s].wallInner

\* C24: in every maze returned from a successful attempt, and from
\* ensurePathToExit on, every wall between the cells (r, exit.sliceStart) and
\* (r + 1, exit.sliceStart) is cleared on both sides.
C24_RadialPathToExit ==
    /\ []((Returned /\ ~maze.fallback) =>
             RadialOpen(maze.cells, config, maze.exit.sliceStart))
    /\ [][(mode = "gen" /\ pc = "ensure")
            => RadialOpen(cells', config, exit.sliceStart)]_vars

\* C24 witness: a returned maze of three rings and four slices whose exit
\* starts at slice 3 and in which the radial line of another slice is blocked
C24_Witness ==
    /\ Returned /\ ~maze.fallback
    /\ config.rings = 3 /\ config.slices = 4
    /\ maze.exit.sliceStart = 3
    /\ RadialOpen(maze.cells, config, 3)
    /\ \E s \in Slice(config) : ~RadialOpen(maze.cells, config, s)

\* the config is geometrically feasible and the exit is at least one slice wide
Generable == checkGeometricConstraints(config) /\ params.exitWidth >= 1

\* C25: for a geometrically feasible config and params with exitWidth >= 1 the
\* solver accepts attempt 0: the retry branch is never taken and the returned
\* finalSeed is config.seed; the fallback maze is returned only for an
\* infeasible config or exitWidth < 1.
C25_FirstAttemptAccepted ==
    /\ []((mode = "gen" /\ Generable) => attempt = 0 /\ seed = config.seed)
    /\ [][(mode = "gen" /\ pc = "validate" /\ Generable)
            => /\ pc' = "returned"
               /\ ~maze'.fallback
               /\ maze'.finalSeed = config.seed]_vars
    /\ []((Returned /\ maze.fallback) => ~Generable)

\* C25 witness: the maze of attempt 0 for a feasible config of three rings and
\* four slices with seed 1 and an exit one slice wide
C25_Witness ==
    /\ Returned /\ ~maze.fallback /\ Generable
    /\ config.rings = 3 /\ config.slices = 4 /\ config.seed = 1
    /\ params.exitWidth = 1
    /\ attempt = 0 /\ built = 1
    /\ maze.finalSeed = 1

\* the slices of the exit sector
ExitSlices(c, e) == {(e.sliceStart + i) % c.slices : i \in 0 .. e.sliceCount - 1}

\* the slices whose outer wall is cleared on the last ring, and those whose
\* inner wall is cleared on ring 0
OuterOpen(g, c) == {s \in Slice(c) : ~g[c.rings - 1][s].wallOuter}
InnerOpen(g, c) == {s \in Slice(c) : ~g[0][s].wallInner}

\* C26: in every maze returned from a successful attempt an outermost-ring
\* cell has its outer wall cleared exactly when its slice is in the exit sector
\* and a ring-0 cell has its inner wall cleared exactly when its slice is an
\* entry hole; carving, extra openings, capping and the forced radial path
\* leave the walls of the boundary as they were.
C26_BoundaryOpenedOnlyWhereIntended ==
    /\ []((Returned /\ ~maze.fallback) =>
            /\ OuterOpen(maze.cells, config) = ExitSlices(config, maze.exit)
            /\ InnerOpen(maze.cells, config) = entry)
    /\ [][(mode = "gen" /\ pc \in {"carve", "openings", "cap", "ensure"}) =>
            /\ OuterOpen(cells', config) = OuterOpen(cells, config)
            /\ InnerOpen(cells', config) = InnerOpen(cells, config)]_vars

\* C26 witness: a returned maze of three rings and four slices with two entry
\* holes, a two-slice exit, and cleared walls inside the lattice on the first
\* and on the last ring
C26_Witness ==
    /\ Returned /\ ~maze.fallback
    /\ config.rings = 3 /\ config.slices = 4
    /\ Cardinality(entry) = 2
    /\ Cardinality(OuterOpen(maze.cells, config)) = 2
    /\ params.branchiness = FromRatio(6, 10)
    /\ \E s \in Slice(config) : ~maze.cells[0][s].wallOuter
    /\ \E s \in Slice(config) : ~maze.cells[2][s].wallInner

\* openEntryHoles has run
HolesOpened == mode = "carve" /\ pc = "holes"

\* the slices n holes take when placed floor(slices / n) apart from offset
HolesAt(c, n, offset) == {(offset + i * (c.slices \div n)) % c.slices : i \in 0 .. n - 1}

\* the inner walls cleared on ring 0 are n holes placed from some offset
EvenlySpaced(g, c, n) == \E offset \in Slice(c) : InnerOpen(g, c) = HolesAt(c, n, offset)

\* C27 as stated: after the entry-hole step, for every slices >= 1, ring 0 has
\* at least 2 and at most 3 distinct cells whose inner wall is cleared, placed
\* floor(slices / numHoles) slices apart from a random offset.
C27_TwoOrThreeEntryHoles ==
    HolesOpened =>
        /\ Cardinality(InnerOpen(cells, config)) \in 2 .. 3
        /\ \E n \in 2 .. 3 : EvenlySpaced(cells, config, n)

\* C27 amended: after the entry-hole step ring 0 has, for slices >= 2, exactly
\* 2 (slices < 12) or 3 (slices >= 12) distinct cells whose inner wall is
\* cleared, placed floor(slices / numHoles) slices apart from a random offset;
\* for slices = 1 the only cell of ring 0 is the only one opened.
C27_EntryHolesFromTwoSlices ==
    HolesOpened =>
        /\ entry = InnerOpen(cells, config)
        /\ config.slices = 1 => InnerOpen(cells, config) = {0}
        /\ (config.slices >= 2 /\ config.slices < 12) =>
              /\ Cardinality(InnerOpen(cells, config)) = 2
              /\ EvenlySpaced(cells, config, 2)
        /\ config.slices >= 12 =>
              /\ Cardinality(InnerOpen(cells, config)) = 3
              /\ EvenlySpaced(cells, config, 3)

\* C27 witness: three holes four slices apart in a ring of twelve slices,
\* starting from offset 1
C27_Witness ==
    /\ HolesOpened
    /\ config.slices = 12
    /\ InnerOpen(cells, config) = {1, 5, 9}

\* parameter records that differ from p only in wallDensity, corridorWidth,
\* decoyRate or pathLengthBias
OtherParams(p) ==
    {[p EXCEPT !.wallDensity = FromRatio(7, 10)],
     [p EXCEPT !.wallDensity = FromRatio(1, 10), !.corridorWidth = FromInt(2),
               !.decoyRate = FromRatio(5, 10), !.pathLengthBias = FromRatio(8, 10)]}

\* a second invocation of generateMaze with the same config and with params
\* changed in the four fields only
SecondCallOtherParams ==
    /\ mode = "gen" /\ pc \in {"returned", "threw"} /\ call = 1
    /\ first' = [pc |-> pc, maze |-> maze]
    /\ \E q \in OtherParams(params) : params' = q
    /\ call' = 2
    /\ pc' = "attempt"
    /\ attempt' = 0
    /\ seed' = config.seed
    /\ cells' = NoCells
    /\ exit' = NoExit
    /\ entry' = {}
    /\ built' = 0
    /\ solution' = NoSolution
    /\ maze' = NoMaze
    /\ UNCHANGED <<engineVars, carving, mode, config, rng, profile, nextParams>>

OtherParamsNext == GenNext \/ SecondCallOtherParams

SpecOtherParams == GenInit /\ [][OtherParamsNext]_vars

\* the fields of params that generateMaze reads
ReadParams(p) == <<p.branchiness, p.radialDensity, p.exitOffset, p.exitWidth>>

\* C28: two calls of generateMaze with the same config whose params agree in
\* branchiness, radialDensity, exitOffset and exitWidth, whatever their
\* wallDensity, corridorWidth, decoyRate and pathLengthBias, end the same way
\* and return identical cells, the same exit sector and the same finalSeed.
C28_UnusedParamsIgnored ==
    (Finished /\ call = 2) =>
        /\ pc = first.pc
        /\ Returned =>
              /\ ReadParams(maze.params) = ReadParams(first.maze.params)
              /\ maze.cells = first.maze.cells
              /\ maze.exit = first.maze.exit
              /\ maze.finalSeed = first.maze.finalSeed
              /\ maze.fallback = first.maze.fallback

\* C28 witness: a solvable maze returned twice, the second time for params
\* with another wallDensity, corridorWidth, decoyRate and pathLengthBias
C28_Witness ==
    /\ Returned /\ call = 2
    /\ ~maze.fallback
    /\ config.rings = 3 /\ config.slices = 4
    /\ maze.params.branchiness = FromRatio(6, 10)
    /\ maze.params.wallDensity = FromRatio(1, 10)
    /\ first.maze.params.wallDensity = FromRatio(3, 10)
    /\ maze.params.corridorWidth = FromInt(2)
    /\ first.maze.params.corridorWidth = FromInt(1)
    /\ maze.params.decoyRate = FromRatio(5, 10)
    /\ first.maze.params.decoyRate = FromRatio(2, 10)
    /\ maze.params.pathLengthBias = FromRatio(8, 10)
    /\ first.maze.params.pathLengthBias = FromRatio(5, 10)
    /\ maze.cells = first.maze.cells

\* n times state.elapsed += FIXED_DT
RECURSIVE ElapsedAfter(_, _)
ElapsedAfter(e, n) == IF n = 0 THEN e ELSE ElapsedAfter(FAdd(e, FIXED_DT), n - 1)

\* n times state.accumulator -= FIXED_DT
RECURSIVE AccumulatorAfter(_, _)
AccumulatorAfter(a, n) == IF n = 0 THEN a ELSE AccumulatorAfter(FSub(a, FIXED_DT), n - 1)

\* the frame time a call adds to the accumulator: the delay between the two
\* timestamps, at most MAX_FRAME_TIME
ClampedDelay(last, current) ==
    IF FGreater(FSub(current, last), MAX_FRAME_TIME)
    THEN MAX_FRAME_TIME
    ELSE FSub(current, last)

\* C29: a single updateTime call runs the physics tick at most 12 times
\* (MAX_FRAME_TIME / FIXED_DT), however long the frame delay was, and every
\* tick takes exactly FIXED_DT from the accumulator and adds exactly FIXED_DT
\* to the elapsed time.
C29_AtMostTwelveTicks ==
    [][mode = "time" =>
         /\ ticked' \in 0 .. 12
         /\ timeState'.elapsed = ElapsedAfter(timeState.elapsed, ticked')
         /\ timeState'.accumulator =
               AccumulatorAfter(FAdd(timeState.accumulator,
                                     ClampedDelay(timeState.lastTime, timeState'.lastTime)),
                                ticked')]_vars

\* C30: the snapshot stored for an attempt records whether it was a win:
\* lastMetrics.won is true when the attempt ended because the ball left through
\* the exit, and false when it was ended by a reset while playing (and no win
\* followed in the same frame).
C30_SnapshotRecordsWin ==
    [][mode = "game" =>
         /\ (/\ game'.status = "won"
             /\ game.status = "playing" \/ game'.attemptIndex # game.attemptIndex)
               => lastMetrics'.won
         /\ (/\ game.status = "playing" /\ game'.status = "playing"
             /\ game'.attemptIndex # game.attemptIndex)
               => ~lastMetrics'.won]_vars

====
